---- MODULE Spec2Model ----
(***************************************************************************)
(* Model of the USF commencement exception request system: the in-memory   *)
(* record store (mock_services.py), the tool executor (main.py and         *)
(* pages/1_Student_Request.py), the reviewer surfaces (registrar_review.py *)
(* and pages/2_Registrar_Review.py) and the conversational turn loop with  *)
(* its retry policy (pages/1_Student_Request.py).                          *)
(***************************************************************************)
EXTENDS Integers, Sequences, FiniteSets, TLC

VARIABLES
    requests,   \* db._requests: the records in insertion order; a record's id is its position
    clock,      \* datetime.now(timezone.utc): a logical time, one tick per reading
    last,       \* the operation that ran last: its name, its arguments, its outcome
    cli,        \* registrar_review.review_request: the input() it waits at, its req, its reviewer
    pc,         \* the student page's turn: where send_and_handle_tools stands
    msg,        \* the message being dispatched: the user's text or the round's response_parts
    attempt,    \* _send_with_retry: the loop variable `attempt`
    attemptLog, \* what the backend answered to each attempt of the current dispatch
    sleeps,     \* the time.sleep(wait) calls of the current dispatch, in order
    response,   \* the backend's last response
    fcIndex,    \* position of the for loop over response.function_calls
    parts,      \* response_parts of the current round
    chat,       \* chat._curated_history of the turn's chat object
    gemini_history, \* st.session_state.gemini_history
    messages,   \* st.session_state.messages
    turns,      \* number of turns started (the greeting included)
    executed,   \* the execute_tool calls of the current turn, round by round, in order
    inflight    \* the update_status calls under way in other threads, each with its position

storeVars == <<requests, clock, last, cli>>
turnVars == <<pc, msg, attempt, attemptLog, sleeps, response, fcIndex, parts, chat,
              gemini_history, messages, turns, executed>>
vars == <<requests, clock, last, cli, pc, msg, attempt, attemptLog, sleeps, response,
          fcIndex, parts, chat, gemini_history, messages, turns, executed, inflight>>

----------------------------------------------------------------------------
(* Bounds of the model *)

MaxRequests == 2

MaxClock == 7

MaxTurns == 2

MaxDispatches == 3

\* dispatches a chat may hold when the turn loop runs alone
MaxLoopDispatches == 4

\* threads that may be inside update_status at once
MaxThreads == 2

\* dispatches of the runs in which the backend asks for tools in every response
MaxRunawayDispatches == 12

\* turns of the sessions in which the transcript is saved more than once
MaxTranscriptTurns == 3

----------------------------------------------------------------------------
(* Values *)

\* Python's None for the Optional[str] fields
None == "None"

\* Python's None for the Optional[str] timestamp fields (times are ticks >= 1)
NoTime == 0

\* Python truthiness of an Optional[str]
Truthy(s) == s # None /\ s # ""

BANNER_RECORDS ==
    [sjbosso |-> [student_name |-> "Steven Bosso", usf_email |-> "sjbosso@usfca.edu",
                  student_id |-> "12345678", school_college |-> "CAS",
                  program |-> "Computer Science"],
     jdoe    |-> [student_name |-> "Jane Doe", usf_email |-> "jdoe@usfca.edu",
                  student_id |-> "87654321", school_college |-> "SOM",
                  program |-> "Business Administration"]]

lookup_banner_record_found(username) == username \in DOMAIN BANNER_RECORDS

get_sso_username == "sjbosso"

\* TOOLS[submit_exception_request].input_schema.required, in the order execute_tool reads them
SubmitRequired ==
    <<"usf_username", "student_name", "usf_email", "student_id", "school_college",
      "program", "phone_number", "original_ceremony_semester",
      "requested_ceremony_semester", "extenuating_circumstances">>

\* TOOLS[submit_fulfillment_info].input_schema.required
FulfillmentRequired ==
    <<"usf_username", "gown_size", "cap_size", "mailing_street", "mailing_city",
      "mailing_state", "mailing_zip">>

GownSizes == {"XS", "S", "M", "L", "XL", "XXL", "XXXL"}

CapSizes == {"S", "M", "L", "XL"}

ToolNames ==
    {"get_student_info", "submit_exception_request", "check_request_status",
     "submit_fulfillment_info", "generate_pdf_record"}

\* the names of the tools declared in agent_config.TOOLS, in the order of the list
TOOLS ==
    <<"get_student_info", "submit_exception_request", "check_request_status",
      "submit_fulfillment_info", "generate_pdf_record">>

Range(s) == {s[i] : i \in 1..Len(s)}

IsPrefix(s, t) == Len(s) <= Len(t) /\ \A i \in 1..Len(s) : s[i] = t[i]

----------------------------------------------------------------------------
(* The record and the store: mock_services.py *)

PENDING_STATUSES == {"SUBMITTED", "UNDER_REVIEW"}

TERMINAL_STATUSES == {"APPROVED", "DENIED"}

\* ExceptionRequest(...): the dataclass with its defaults, as execute_tool constructs it
ExceptionRequest(id, tool_input, status, submitted_at) ==
    [id |-> id,
     usf_username |-> tool_input["usf_username"],
     student_name |-> tool_input["student_name"],
     usf_email |-> tool_input["usf_email"],
     student_id |-> tool_input["student_id"],
     school_college |-> tool_input["school_college"],
     program |-> tool_input["program"],
     phone_number |-> tool_input["phone_number"],
     original_ceremony_semester |-> tool_input["original_ceremony_semester"],
     requested_ceremony_semester |-> tool_input["requested_ceremony_semester"],
     extenuating_circumstances |-> tool_input["extenuating_circumstances"],
     status |-> status,
     submitted_at |-> submitted_at,
     decided_at |-> NoTime,
     reviewer_name |-> None,
     decision_rationale |-> None,
     gown_size |-> None,
     cap_size |-> None,
     mailing_street |-> None,
     mailing_city |-> None,
     mailing_state |-> None,
     mailing_zip |-> None,
     fulfillment_status |-> None,
     conversation_history |-> <<>>,
     audit_log |-> <<>>,
     pdf_path |-> None]

AuditEntry(timestamp, action, actor) ==
    [timestamp |-> timestamp, action |-> action, actor |-> actor]

\* save_request storing under a key the store already holds: the record there is replaced
save_request_replaces_last(reqs, request) ==
    IF reqs = <<>> THEN Append(reqs, request)
    ELSE [reqs EXCEPT ![Len(reqs)] = [request EXCEPT !.id = Len(reqs)]]

\* ApplicationDatabase.save_request: a fresh id is a new key, appended in insertion order
save_request(reqs, request) == Append(reqs, request)

\* ApplicationDatabase.get_request: the id when present, 0 for None
get_request(reqs, request_id) ==
    IF request_id \in 1..Len(reqs) THEN request_id ELSE 0

\* get_request_by_username returning the record saved last among those of the username
get_request_by_username_latest(reqs, username) ==
    LET matches == {i \in 1..Len(reqs) : reqs[i].usf_username = username}
    IN  IF matches = {} THEN 0
        ELSE CHOOSE i \in matches : \A j \in matches : j <= i

\* ApplicationDatabase.get_request_by_username: the first record, in insertion order,
\* with that username; 0 for None
get_request_by_username(reqs, username) ==
    LET S == {i \in 1..Len(reqs) : reqs[i].usf_username = username}
    IN  IF S = {} THEN 0 ELSE CHOOSE i \in S : \A j \in S : i <= j

\* ApplicationDatabase.get_all_requests
get_all_requests(reqs, status) ==
    IF Truthy(status)
    THEN SelectSeq(reqs, LAMBDA r : r.status = status)
    ELSE reqs

\* update_status that starts the audit log afresh instead of appending to it
update_status_rewrites_log(reqs, clk, request_id, new_status, reviewer_name, rationale) ==
    IF get_request(reqs, request_id) = 0
    THEN [requests |-> reqs, clock |-> clk, returned |-> None]
    ELSE
        LET req == reqs[request_id]
            entry == AuditEntry(clk, <<"Status changed", req.status, new_status>>,
                                IF Truthy(reviewer_name) THEN reviewer_name ELSE "system")
        IN  [requests |-> [reqs EXCEPT ![request_id] =
                              [req EXCEPT !.status = new_status,
                                          !.audit_log = <<entry>>]],
             clock |-> clk + 1, returned |-> None]

\* update_status reading the status for the audit entry after it has assigned the new one
update_status_logs_new_as_old(reqs, clk, request_id, new_status, reviewer_name, rationale) ==
    IF get_request(reqs, request_id) = 0
    THEN [requests |-> reqs, clock |-> clk, returned |-> None]
    ELSE
        LET req == reqs[request_id]
            decision == new_status \in {"APPROVED", "DENIED"}
            stamp == IF decision THEN clk + 1 ELSE clk
            decided ==
                IF decision
                THEN [req EXCEPT !.status = new_status,
                                 !.decided_at = clk,
                                 !.reviewer_name = reviewer_name,
                                 !.decision_rationale = rationale]
                ELSE [req EXCEPT !.status = new_status]
            entry == AuditEntry(stamp, <<"Status changed", decided.status, new_status>>,
                                IF Truthy(reviewer_name) THEN reviewer_name ELSE "system")
        IN  [requests |-> [reqs EXCEPT ![request_id] =
                              [decided EXCEPT !.audit_log = Append(req.audit_log, entry)]],
             clock |-> stamp + 1, returned |-> None]

\* ApplicationDatabase.update_status: no guard on the current status; the decision
\* fields are written whenever the new status is a decision; one audit entry; the call
\* returns None whether the record exists or not
update_status(reqs, clk, request_id, new_status, reviewer_name, rationale) ==
    IF get_request(reqs, request_id) = 0
    THEN [requests |-> reqs, clock |-> clk, returned |-> None]
    ELSE
        LET req == reqs[request_id]
            old_status == req.status
            decision == new_status \in {"APPROVED", "DENIED"}
            stamp == IF decision THEN clk + 1 ELSE clk
            decided ==
                IF decision
                THEN [req EXCEPT !.status = new_status,
                                 !.decided_at = clk,
                                 !.reviewer_name = reviewer_name,
                                 !.decision_rationale = rationale]
                ELSE [req EXCEPT !.status = new_status]
            entry == AuditEntry(stamp, <<"Status changed", old_status, new_status>>,
                                IF Truthy(reviewer_name) THEN reviewer_name ELSE "system")
        IN  [requests |-> [reqs EXCEPT ![request_id] =
                              [decided EXCEPT !.audit_log = Append(req.audit_log, entry)]],
             clock |-> stamp + 1, returned |-> None]

\* update_fulfillment that keeps what a record already has from an earlier submission
update_fulfillment_first_only(reqs, clk, request_id, gown_size, cap_size, street, city, state, zip_code) ==
    IF get_request(reqs, request_id) = 0
    THEN [requests |-> reqs, clock |-> clk]
    ELSE IF reqs[request_id].fulfillment_status # None
    THEN [requests |-> reqs, clock |-> clk]
    ELSE
        LET req == reqs[request_id]
            entry == AuditEntry(clk, <<"Fulfillment information submitted">>, req.usf_username)
        IN  [requests |-> [reqs EXCEPT ![request_id] =
                              [req EXCEPT !.gown_size = gown_size,
                                          !.cap_size = cap_size,
                                          !.mailing_street = street,
                                          !.mailing_city = city,
                                          !.mailing_state = state,
                                          !.mailing_zip = zip_code,
                                          !.fulfillment_status = "PENDING",
                                          !.audit_log = Append(req.audit_log, entry)]],
             clock |-> clk + 1]

\* update_fulfillment with the two sizes taken for each other
update_fulfillment_swapped_sizes(reqs, clk, request_id, gown_size, cap_size, street, city, state, zip_code) ==
    IF get_request(reqs, request_id) = 0
    THEN [requests |-> reqs, clock |-> clk]
    ELSE
        LET req == reqs[request_id]
            entry == AuditEntry(clk, <<"Fulfillment information submitted">>, req.usf_username)
        IN  [requests |-> [reqs EXCEPT ![request_id] =
                              [req EXCEPT !.gown_size = cap_size,
                                          !.cap_size = gown_size,
                                          !.mailing_street = street,
                                          !.mailing_city = city,
                                          !.mailing_state = state,
                                          !.mailing_zip = zip_code,
                                          !.fulfillment_status = "PENDING",
                                          !.audit_log = Append(req.audit_log, entry)]],
             clock |-> clk + 1]

\* ApplicationDatabase.update_fulfillment: no guard on the status; one audit entry
update_fulfillment(reqs, clk, request_id, gown_size, cap_size, street, city, state, zip_code) ==
    IF get_request(reqs, request_id) = 0
    THEN [requests |-> reqs, clock |-> clk]
    ELSE
        LET req == reqs[request_id]
            entry == AuditEntry(clk, <<"Fulfillment information submitted">>, req.usf_username)
        IN  [requests |-> [reqs EXCEPT ![request_id] =
                              [req EXCEPT !.gown_size = gown_size,
                                          !.cap_size = cap_size,
                                          !.mailing_street = street,
                                          !.mailing_city = city,
                                          !.mailing_state = state,
                                          !.mailing_zip = zip_code,
                                          !.fulfillment_status = "PENDING",
                                          !.audit_log = Append(req.audit_log, entry)]],
             clock |-> clk + 1]

----------------------------------------------------------------------------
(* The tool executor: main.py execute_tool *)

\* a Python dict lookup d[k] raises KeyError when k is absent
HasKeys(tool_input, keys) == \A i \in 1..Len(keys) : keys[i] \in DOMAIN tool_input

Merge(f, g) ==
    [k \in DOMAIN f \cup DOMAIN g |-> IF k \in DOMAIN g THEN g[k] ELSE f[k]]

EmptyDict == [k \in {} |-> ""]

\* execute_tool returned `result`
Return(reqs, clk, result) ==
    [requests |-> reqs, clock |-> clk, out |-> [raised |-> FALSE, result |-> result]]

\* execute_tool raised `exc` to its caller
Raise(reqs, clk, exc) ==
    [requests |-> reqs, clock |-> clk, out |-> [raised |-> TRUE, exc |-> exc]]

\* generate_pdf returns the path it wrote
PdfPath == "output/commencement_exception.pdf"

\* the same for the pages, whose output_dir is os.path.join(dirname, "..", "output")
PagePdfPath == "pages/../output/commencement_exception.pdf"

\* get_student_info subscripting the Banner records: a missing profile raises
get_student_info_subscripts(tool_input, reqs, clk) ==
    IF ~HasKeys(tool_input, <<"usf_username">>) THEN Raise(reqs, clk, "KeyError")
    ELSE
        LET username == tool_input["usf_username"]
        IN  IF lookup_banner_record_found(username)
            THEN Return(reqs, clk, [success |-> TRUE, student_info |-> BANNER_RECORDS[username]])
            ELSE Raise(reqs, clk, "KeyError")

get_student_info(tool_input, reqs, clk) ==
    IF ~HasKeys(tool_input, <<"usf_username">>) THEN Raise(reqs, clk, "KeyError")
    ELSE
        LET username == tool_input["usf_username"]
        IN  IF lookup_banner_record_found(username)
            THEN Return(reqs, clk, [success |-> TRUE, student_info |-> BANNER_RECORDS[username]])
            ELSE Return(reqs, clk, [success |-> FALSE,
                                    error |-> <<"No Banner record found for username", username>>])

\* no check that a field is non-empty, no lookup of an existing record of the username
submit_exception_request(tool_input, reqs, clk) ==
    IF ~HasKeys(tool_input, SubmitRequired) THEN Raise(reqs, clk, "KeyError")
    ELSE
        LET id == Len(reqs) + 1
            request == ExceptionRequest(id, tool_input, "SUBMITTED", clk)
            entry == AuditEntry(clk + 1, <<"Request submitted by student">>,
                                request.usf_username)
            logged == [request EXCEPT !.audit_log = Append(request.audit_log, entry)]
        IN  Return(save_request(reqs, logged), clk + 2,
                   [success |-> TRUE, request_id |-> id, status |-> "SUBMITTED",
                    message |-> "The commencement exception request has been submitted to the Registrar's Office for review."])

\* check_request_status reporting the decision fields for every status
check_request_status_always_decision(tool_input, reqs, clk) ==
    IF ~HasKeys(tool_input, <<"usf_username">>) THEN Raise(reqs, clk, "KeyError")
    ELSE
        LET username == tool_input["usf_username"]
            id == get_request_by_username(reqs, username)
        IN  IF id # 0
            THEN
                LET request == reqs[id]
                    base == [success |-> TRUE, request_id |-> request.id,
                             status |-> request.status,
                             submitted_at |-> request.submitted_at,
                             decided_at |-> request.decided_at,
                             reviewer |-> request.reviewer_name,
                             rationale |-> request.decision_rationale]
                    fulfillment ==
                        IF Truthy(request.fulfillment_status)
                        THEN [fulfillment_status |-> request.fulfillment_status]
                        ELSE EmptyDict
                IN  Return(reqs, clk, Merge(base, fulfillment))
            ELSE Return(reqs, clk, [success |-> FALSE,
                                    error |-> <<"No request found for username", username>>])

check_request_status(tool_input, reqs, clk) ==
    IF ~HasKeys(tool_input, <<"usf_username">>) THEN Raise(reqs, clk, "KeyError")
    ELSE
        LET username == tool_input["usf_username"]
            id == get_request_by_username(reqs, username)
        IN  IF id # 0
            THEN
                LET request == reqs[id]
                    base == [success |-> TRUE, request_id |-> request.id,
                             status |-> request.status,
                             submitted_at |-> request.submitted_at]
                    decision ==
                        IF request.status \in {"APPROVED", "DENIED"}
                        THEN [decided_at |-> request.decided_at,
                              reviewer |-> request.reviewer_name,
                              rationale |-> request.decision_rationale]
                        ELSE EmptyDict
                    needs ==
                        IF request.status = "APPROVED" /\ ~Truthy(request.gown_size)
                        THEN [needs_fulfillment |-> TRUE,
                              message |-> "This request has been approved. The student needs to provide cap-and-gown size and mailing address."]
                        ELSE EmptyDict
                    fulfillment ==
                        IF Truthy(request.fulfillment_status)
                        THEN [fulfillment_status |-> request.fulfillment_status]
                        ELSE EmptyDict
                IN  Return(reqs, clk, Merge(Merge(Merge(base, decision), needs), fulfillment))
            ELSE Return(reqs, clk, [success |-> FALSE,
                                    error |-> <<"No request found for username", username>>])

\* submit_fulfillment_info without the check of the status
submit_fulfillment_info_unguarded(tool_input, reqs, clk) ==
    IF ~HasKeys(tool_input, <<"usf_username">>) THEN Raise(reqs, clk, "KeyError")
    ELSE
        LET username == tool_input["usf_username"]
            id == get_request_by_username(reqs, username)
        IN  IF id = 0
            THEN Return(reqs, clk, [success |-> FALSE, error |-> <<"No request found.">>])
            ELSE IF ~HasKeys(tool_input, FulfillmentRequired) THEN Raise(reqs, clk, "KeyError")
            ELSE
                LET upd == update_fulfillment(reqs, clk, reqs[id].id,
                                              tool_input["gown_size"], tool_input["cap_size"],
                                              tool_input["mailing_street"],
                                              tool_input["mailing_city"],
                                              tool_input["mailing_state"],
                                              tool_input["mailing_zip"])
                IN  Return(upd.requests, upd.clock,
                           [success |-> TRUE,
                            message |-> "Fulfillment information saved. The cap and gown will be mailed to the provided address.",
                            fulfillment_status |-> "PENDING"])

\* submit_fulfillment_info that stores what it was given before it looks at the status
submit_fulfillment_info_stores_first(tool_input, reqs, clk) ==
    IF ~HasKeys(tool_input, <<"usf_username">>) THEN Raise(reqs, clk, "KeyError")
    ELSE
        LET username == tool_input["usf_username"]
            id == get_request_by_username(reqs, username)
        IN  IF id = 0
            THEN Return(reqs, clk, [success |-> FALSE, error |-> <<"No request found.">>])
            ELSE IF ~HasKeys(tool_input, FulfillmentRequired) THEN Raise(reqs, clk, "KeyError")
            ELSE
                LET upd == update_fulfillment(reqs, clk, reqs[id].id,
                                              tool_input["gown_size"], tool_input["cap_size"],
                                              tool_input["mailing_street"],
                                              tool_input["mailing_city"],
                                              tool_input["mailing_state"],
                                              tool_input["mailing_zip"])
                IN  IF reqs[id].status # "APPROVED"
                    THEN Return(upd.requests, upd.clock,
                                [success |-> FALSE,
                                 error |-> <<"Request status is not APPROVED", reqs[id].status>>])
                    ELSE Return(upd.requests, upd.clock,
                                [success |-> TRUE,
                                 message |-> "Fulfillment information saved. The cap and gown will be mailed to the provided address.",
                                 fulfillment_status |-> "PENDING"])

submit_fulfillment_info(tool_input, reqs, clk) ==
    IF ~HasKeys(tool_input, <<"usf_username">>) THEN Raise(reqs, clk, "KeyError")
    ELSE
        LET username == tool_input["usf_username"]
            id == get_request_by_username(reqs, username)
        IN  IF id = 0
            THEN Return(reqs, clk, [success |-> FALSE, error |-> <<"No request found.">>])
            ELSE IF reqs[id].status # "APPROVED"
            THEN Return(reqs, clk, [success |-> FALSE,
                                    error |-> <<"Request status is not APPROVED", reqs[id].status>>])
            ELSE IF ~HasKeys(tool_input, FulfillmentRequired) THEN Raise(reqs, clk, "KeyError")
            ELSE
                LET upd == update_fulfillment(reqs, clk, reqs[id].id,
                                              tool_input["gown_size"], tool_input["cap_size"],
                                              tool_input["mailing_street"],
                                              tool_input["mailing_city"],
                                              tool_input["mailing_state"],
                                              tool_input["mailing_zip"])
                IN  Return(upd.requests, upd.clock,
                           [success |-> TRUE,
                            message |-> "Fulfillment information saved. The cap and gown will be mailed to the provided address.",
                            fulfillment_status |-> "PENDING"])

\* pdf_ok: whether generate_pdf wrote the file; when it raises, the exception leaves
\* execute_tool before pdf_path is stored and before the audit entry is appended
generate_pdf_record(tool_input, reqs, clk, pdf_ok) ==
    IF ~HasKeys(tool_input, <<"usf_username">>) THEN Raise(reqs, clk, "KeyError")
    ELSE
        LET username == tool_input["usf_username"]
            id == get_request_by_username(reqs, username)
        IN  IF id = 0
            THEN Return(reqs, clk, [success |-> FALSE, error |-> <<"No request found.">>])
            ELSE IF ~pdf_ok THEN Raise(reqs, clk, "OSError")
            ELSE
                LET req == reqs[id]
                    entry == AuditEntry(clk, <<"PDF record generated">>, "system")
                IN  Return([reqs EXCEPT ![id] =
                               [req EXCEPT !.pdf_path = PdfPath,
                                           !.audit_log = Append(req.audit_log, entry)]],
                           clk + 1,
                           [success |-> TRUE, pdf_path |-> PdfPath,
                            message |-> "PDF record generated successfully."])

\* execute_tool without the branch of generate_pdf_record
execute_tool_four_handlers(tool_name, tool_input, reqs, clk, pdf_ok) ==
    IF tool_name = "get_student_info" THEN get_student_info(tool_input, reqs, clk)
    ELSE IF tool_name = "submit_exception_request"
    THEN submit_exception_request(tool_input, reqs, clk)
    ELSE IF tool_name = "check_request_status"
    THEN check_request_status(tool_input, reqs, clk)
    ELSE IF tool_name = "submit_fulfillment_info"
    THEN submit_fulfillment_info(tool_input, reqs, clk)
    ELSE Return(reqs, clk, [success |-> FALSE, error |-> <<"Unknown tool", tool_name>>])

execute_tool(tool_name, tool_input, reqs, clk, pdf_ok) ==
    IF tool_name = "get_student_info" THEN get_student_info(tool_input, reqs, clk)
    ELSE IF tool_name = "submit_exception_request"
    THEN submit_exception_request(tool_input, reqs, clk)
    ELSE IF tool_name = "check_request_status"
    THEN check_request_status(tool_input, reqs, clk)
    ELSE IF tool_name = "submit_fulfillment_info"
    THEN submit_fulfillment_info(tool_input, reqs, clk)
    ELSE IF tool_name = "generate_pdf_record"
    THEN generate_pdf_record(tool_input, reqs, clk, pdf_ok)
    ELSE Return(reqs, clk, [success |-> FALSE, error |-> <<"Unknown tool", tool_name>>])

----------------------------------------------------------------------------
(* The tool executor of the student page: pages/1_Student_Request.py execute_tool *)

page_get_student_info(tool_input, reqs, clk) ==
    IF ~HasKeys(tool_input, <<"usf_username">>) THEN Raise(reqs, clk, "KeyError")
    ELSE
        LET username == tool_input["usf_username"]
        IN  IF lookup_banner_record_found(username)
            THEN Return(reqs, clk, [success |-> TRUE, student_info |-> BANNER_RECORDS[username]])
            ELSE Return(reqs, clk, [success |-> FALSE,
                                    error |-> <<"No Banner record found for", username>>])

page_submit_exception_request(tool_input, reqs, clk) ==
    IF ~HasKeys(tool_input, SubmitRequired) THEN Raise(reqs, clk, "KeyError")
    ELSE
        LET id == Len(reqs) + 1
            request == ExceptionRequest(id, tool_input, "SUBMITTED", clk)
            entry == AuditEntry(clk + 1, <<"Request submitted by student">>,
                                request.usf_username)
            logged == [request EXCEPT !.audit_log = Append(request.audit_log, entry)]
        IN  Return(save_request(reqs, logged), clk + 2,
                   [success |-> TRUE, request_id |-> id, status |-> "SUBMITTED",
                    message |-> "The request has been submitted to the Registrar's Office."])

page_check_request_status(tool_input, reqs, clk) ==
    IF ~HasKeys(tool_input, <<"usf_username">>) THEN Raise(reqs, clk, "KeyError")
    ELSE
        LET username == tool_input["usf_username"]
            id == get_request_by_username(reqs, username)
        IN  IF id # 0
            THEN
                LET request == reqs[id]
                    base == [success |-> TRUE, request_id |-> request.id,
                             status |-> request.status,
                             submitted_at |-> request.submitted_at]
                    decision ==
                        IF request.status \in {"APPROVED", "DENIED"}
                        THEN [decided_at |-> request.decided_at,
                              reviewer |-> request.reviewer_name,
                              rationale |-> request.decision_rationale]
                        ELSE EmptyDict
                    needs ==
                        IF request.status = "APPROVED" /\ ~Truthy(request.gown_size)
                        THEN [needs_fulfillment |-> TRUE,
                              message |-> "Approved. Student needs to provide cap-and-gown size and mailing address."]
                        ELSE EmptyDict
                    fulfillment ==
                        IF Truthy(request.fulfillment_status)
                        THEN [fulfillment_status |-> request.fulfillment_status]
                        ELSE EmptyDict
                IN  Return(reqs, clk, Merge(Merge(Merge(base, decision), needs), fulfillment))
            ELSE Return(reqs, clk, [success |-> FALSE,
                                    error |-> <<"No request found for", username>>])

page_submit_fulfillment_info(tool_input, reqs, clk) ==
    IF ~HasKeys(tool_input, <<"usf_username">>) THEN Raise(reqs, clk, "KeyError")
    ELSE
        LET username == tool_input["usf_username"]
            id == get_request_by_username(reqs, username)
        IN  IF id = 0
            THEN Return(reqs, clk, [success |-> FALSE, error |-> <<"No request found.">>])
            ELSE IF reqs[id].status # "APPROVED"
            THEN Return(reqs, clk, [success |-> FALSE,
                                    error |-> <<"Request is not APPROVED", reqs[id].status>>])
            ELSE IF ~HasKeys(tool_input, FulfillmentRequired) THEN Raise(reqs, clk, "KeyError")
            ELSE
                LET upd == update_fulfillment(reqs, clk, reqs[id].id,
                                              tool_input["gown_size"], tool_input["cap_size"],
                                              tool_input["mailing_street"],
                                              tool_input["mailing_city"],
                                              tool_input["mailing_state"],
                                              tool_input["mailing_zip"])
                IN  Return(upd.requests, upd.clock,
                           [success |-> TRUE,
                            message |-> "Fulfillment info saved. Cap and gown will be mailed.",
                            fulfillment_status |-> "PENDING"])

\* the page's generate_pdf_record storing the path without the audit entry
page_generate_pdf_record_no_audit(tool_input, reqs, clk, pdf_ok) ==
    IF ~HasKeys(tool_input, <<"usf_username">>) THEN Raise(reqs, clk, "KeyError")
    ELSE
        LET username == tool_input["usf_username"]
            id == get_request_by_username(reqs, username)
        IN  IF id = 0
            THEN Return(reqs, clk, [success |-> FALSE, error |-> <<"No request found.">>])
            ELSE IF ~pdf_ok THEN Raise(reqs, clk, "OSError")
            ELSE Return([reqs EXCEPT ![id].pdf_path = PagePdfPath], clk,
                        [success |-> TRUE, pdf_path |-> PagePdfPath,
                         message |-> "PDF generated."])

page_generate_pdf_record(tool_input, reqs, clk, pdf_ok) ==
    IF ~HasKeys(tool_input, <<"usf_username">>) THEN Raise(reqs, clk, "KeyError")
    ELSE
        LET username == tool_input["usf_username"]
            id == get_request_by_username(reqs, username)
        IN  IF id = 0
            THEN Return(reqs, clk, [success |-> FALSE, error |-> <<"No request found.">>])
            ELSE IF ~pdf_ok THEN Raise(reqs, clk, "OSError")
            ELSE
                LET req == reqs[id]
                    entry == AuditEntry(clk, <<"PDF record generated">>, "system")
                IN  Return([reqs EXCEPT ![id] =
                               [req EXCEPT !.pdf_path = PagePdfPath,
                                           !.audit_log = Append(req.audit_log, entry)]],
                           clk + 1,
                           [success |-> TRUE, pdf_path |-> PagePdfPath,
                            message |-> "PDF generated."])

page_execute_tool(tool_name, tool_input, reqs, clk, pdf_ok) ==
    IF tool_name = "get_student_info" THEN page_get_student_info(tool_input, reqs, clk)
    ELSE IF tool_name = "submit_exception_request"
    THEN page_submit_exception_request(tool_input, reqs, clk)
    ELSE IF tool_name = "check_request_status"
    THEN page_check_request_status(tool_input, reqs, clk)
    ELSE IF tool_name = "submit_fulfillment_info"
    THEN page_submit_fulfillment_info(tool_input, reqs, clk)
    ELSE IF tool_name = "generate_pdf_record"
    THEN page_generate_pdf_record(tool_input, reqs, clk, pdf_ok)
    ELSE Return(reqs, clk, [success |-> FALSE, error |-> <<"Unknown tool", tool_name>>])

----------------------------------------------------------------------------
(* Inputs *)

Usernames == {"sjbosso", "jdoe"}

\* the arguments of test_agent.py's Test 8, with the profile of the username
ValidSubmit(u) ==
    [usf_username |-> u,
     student_name |-> BANNER_RECORDS[u].student_name,
     usf_email |-> BANNER_RECORDS[u].usf_email,
     student_id |-> BANNER_RECORDS[u].student_id,
     school_college |-> BANNER_RECORDS[u].school_college,
     program |-> BANNER_RECORDS[u].program,
     phone_number |-> "(415) 555-1234",
     original_ceremony_semester |-> "Fall 2025",
     requested_ceremony_semester |-> "Spring 2026",
     extenuating_circumstances |-> "I need to complete one remaining course in January 2026."]

\* the argument map without key k
Drop(tool_input, k) == [x \in DOMAIN tool_input \ {k} |-> tool_input[x]]

\* the argument map with the empty string under key k
Blank(tool_input, k) == [tool_input EXCEPT ![k] = ""]

\* the required fields that the inputs leave out or leave empty
DefectKeys == {"usf_username", "program", "extenuating_circumstances"}

SubmitInputs ==
    {ValidSubmit(u) : u \in Usernames}
    \cup {Drop(ValidSubmit("sjbosso"), k) : k \in DefectKeys}
    \cup {Blank(ValidSubmit("sjbosso"), k) : k \in DefectKeys}

UsernameInputs ==
    {[usf_username |-> u] : u \in Usernames \cup {"nonexistent"}} \cup {EmptyDict}

\* the arguments of test_agent.py's Test 11
ValidFulfillment(u) ==
    [usf_username |-> u, gown_size |-> "L", cap_size |-> "M",
     mailing_street |-> "2130 Fulton Street", mailing_city |-> "San Francisco",
     mailing_state |-> "CA", mailing_zip |-> "94117"]

FulfillmentInputs ==
    {ValidFulfillment(u) : u \in Usernames}
    \cup {[ValidFulfillment("sjbosso") EXCEPT !["gown_size"] = "XXXXL"],
          Drop(ValidFulfillment("sjbosso"), "mailing_zip"),
          Drop(ValidFulfillment("sjbosso"), "usf_username")}

Statuses == {"SUBMITTED", "UNDER_REVIEW", "APPROVED", "DENIED"}

\* what a reviewer types as rationale and as name
RationaleInputs == {"   ", "ok"}

ReviewerInputs == {"", "Dr. Jane Smith"}

\* str.strip() on the inputs above
Strip(s) == IF s = "   " THEN "" ELSE s

\* the (reviewer_name, rationale) pairs of a direct db.update_status call: the defaults,
\* and the arguments of test_agent.py's Test 10
DirectDecisionArgs ==
    {<<None, None>>,
     <<"Dr. Jane Smith", "Student is in good standing with only one course remaining.">>}

TestDecisionArgs ==
    {<<"Dr. Jane Smith", "Student is in good standing with only one course remaining.">>}

----------------------------------------------------------------------------
(* Initial state *)

InitStore ==
    /\ requests = <<>>
    /\ clock = 1
    /\ last = [op |-> "none"]
    /\ cli = [stage |-> "menu", req |-> 0, reviewer |-> None]

InitTurn ==
    /\ pc = "idle"
    /\ msg = <<>>
    /\ attempt = 0
    /\ attemptLog = <<>>
    /\ sleeps = <<>>
    /\ response = [function_calls |-> <<>>, text |-> None]
    /\ fcIndex = 0
    /\ parts = <<>>
    /\ chat = <<>>
    /\ gemini_history = <<>>
    /\ messages = <<>>
    /\ turns = 0
    /\ executed = <<>>

Init == InitStore /\ InitTurn /\ inflight = <<>>

---------------------------------------------------------------------------------------------------------------------------------------------------
(* Direct calls of the tool executor, as test_agent.py makes them *)

ToolCall(tool_name, tool_input, pdf_ok) ==
    LET r == execute_tool(tool_name, tool_input, requests, clock, pdf_ok)
    IN  /\ Len(r.requests) <= MaxRequests
        /\ requests' = r.requests
        /\ clock' = r.clock
        /\ last' = [op |-> tool_name, input |-> tool_input, out |-> r.out]
        /\ UNCHANGED <<cli, inflight, turnVars>>

GetStudentInfo(inputs) ==
    \E i \in inputs :
        /\ clock < MaxClock
        /\ ToolCall("get_student_info", i, TRUE)

SubmitExceptionRequest(inputs) ==
    \E i \in inputs :
        /\ clock < MaxClock
        /\ ToolCall("submit_exception_request", i, TRUE)

CheckRequestStatus(inputs) ==
    \E i \in inputs :
        /\ clock < MaxClock
        /\ ToolCall("check_request_status", i, TRUE)

SubmitFulfillmentInfo(inputs) ==
    \E i \in inputs :
        /\ clock < MaxClock
        /\ ToolCall("submit_fulfillment_info", i, TRUE)

GeneratePdfRecord(inputs) ==
    \E i \in inputs, pdf_ok \in BOOLEAN :
        /\ clock < MaxClock
        /\ ToolCall("generate_pdf_record", i, pdf_ok)

\* a name that is no branch of execute_tool (the spec's name of get_student_info)
UnknownTool ==
    /\ clock < MaxClock
    /\ ToolCall("lookup_profile", [usf_username |-> "sjbosso"], TRUE)

\* db.update_status called on the store, as test_agent.py's Test 10 does
UpdateStatus(new_statuses, args) ==
    \E id \in 1..(Len(requests) + 1), new_status \in new_statuses, a \in args :
        LET r == update_status(requests, clock, id, new_status, a[1], a[2])
        IN  /\ clock < MaxClock
            /\ requests' = r.requests
            /\ clock' = r.clock
            /\ last' = [op |-> "update_status", known |-> get_request(requests, id) # 0,
                        returned |-> r.returned, request_id |-> id,
                        new_status |-> new_status, reviewer_name |-> a[1]]
            /\ UNCHANGED <<cli, inflight, turnVars>>

----------------------------------------------------------------------------
(* The reviewer's command line: registrar_review.py review_request *)

\* req.pdf_path = generate_pdf(req); req.audit_log.append("PDF record generated", actor)
attach_pdf(reqs, clk, id, actor, path) ==
    LET req == reqs[id]
        entry == AuditEntry(clk, <<"PDF record generated">>, actor)
    IN  [requests |-> [reqs EXCEPT ![id] =
                          [req EXCEPT !.pdf_path = path,
                                      !.audit_log = Append(req.audit_log, entry)]],
         clock |-> clk + 1]

\* review_request recording the reviewer on the record when it opens a request
review_open_stamps_reviewer(reqs, clk, id) ==
    IF reqs[id].status \notin {"SUBMITTED", "UNDER_REVIEW"}
    THEN [requests |-> reqs, clock |-> clk, opened |-> FALSE]
    ELSE IF reqs[id].status = "SUBMITTED"
    THEN LET r == update_status(reqs, clk, reqs[id].id, "UNDER_REVIEW", "Registrar Staff", None)
         IN  [requests |-> [r.requests EXCEPT ![id].reviewer_name = "Registrar Staff"],
              clock |-> r.clock, opened |-> TRUE]
    ELSE [requests |-> reqs, clock |-> clk, opened |-> TRUE]

\* review_request up to its first input(): a decided request is only shown; a SUBMITTED
\* one is marked UNDER_REVIEW
review_open(reqs, clk, id) ==
    IF reqs[id].status \notin {"SUBMITTED", "UNDER_REVIEW"}
    THEN [requests |-> reqs, clock |-> clk, opened |-> FALSE]
    ELSE IF reqs[id].status = "SUBMITTED"
    THEN LET r == update_status(reqs, clk, reqs[id].id, "UNDER_REVIEW", "Registrar Staff", None)
         IN  [requests |-> r.requests, clock |-> r.clock, opened |-> TRUE]
    ELSE [requests |-> reqs, clock |-> clk, opened |-> TRUE]

\* the reviewer picks a number of the list
ReviewOpen ==
    \E id \in 1..Len(requests) :
        LET r == review_open(requests, clock, id)
        IN  /\ cli.stage = "menu"
            /\ clock < MaxClock
            /\ requests' = r.requests
            /\ clock' = r.clock
            /\ cli' = IF r.opened THEN [stage |-> "choice", req |-> id, reviewer |-> None]
                      ELSE cli
            /\ last' = [op |-> "review_request"]
            /\ UNCHANGED <<inflight, turnVars>>

\* choice C: back to the list; the status set by review_open stays
ReviewCancel ==
    /\ cli.stage = "choice"
    /\ cli' = [stage |-> "menu", req |-> 0, reviewer |-> None]
    /\ last' = [op |-> "review_request"]
    /\ UNCHANGED <<requests, clock, inflight, turnVars>>

\* choice A or D, then the rationale (asked again until it is not blank) and the
\* reviewer's name (Registrar Staff when blank), then db.update_status
ReviewDecide ==
    \E choice \in {"A", "D"}, rationale_in \in RationaleInputs, reviewer_in \in ReviewerInputs :
        LET rationale == Strip(rationale_in)
            reviewer == IF Strip(reviewer_in) = "" THEN "Registrar Staff" ELSE Strip(reviewer_in)
            new_status == IF choice = "A" THEN "APPROVED" ELSE "DENIED"
            r == update_status(requests, clock, requests[cli.req].id, new_status,
                               reviewer, rationale)
        IN  /\ cli.stage = "choice"
            /\ rationale # ""
            /\ clock < MaxClock
            /\ requests' = r.requests
            /\ clock' = r.clock
            /\ cli' = [stage |-> "pdf", req |-> cli.req, reviewer |-> reviewer]
            /\ last' = [op |-> "review_request"]
            /\ UNCHANGED <<inflight, turnVars>>

\* "Generate PDF record now? (Y/n)": n skips it; otherwise generate_pdf, whose exception
\* is caught nowhere and ends the program
ReviewPdf ==
    \E gen_pdf \in {"", "n"}, pdf_ok \in BOOLEAN :
        LET r == attach_pdf(requests, clock, cli.req, cli.reviewer, PdfPath)
        IN  /\ cli.stage = "pdf"
            /\ clock < MaxClock
            /\ IF gen_pdf = "n"
               THEN /\ UNCHANGED <<requests, clock>>
                    /\ cli' = [stage |-> "menu", req |-> 0, reviewer |-> None]
               ELSE IF ~pdf_ok
               THEN /\ UNCHANGED <<requests, clock>>
                    /\ cli' = [stage |-> "exited", req |-> 0, reviewer |-> None]
               ELSE /\ requests' = r.requests
                    /\ clock' = r.clock
                    /\ cli' = [stage |-> "menu", req |-> 0, reviewer |-> None]
            /\ last' = [op |-> "review_request"]
            /\ UNCHANGED <<inflight, turnVars>>

----------------------------------------------------------------------------
(* The reviewer's dashboard: pages/2_Registrar_Review.py render_request_card *)

\* a click on Approve or Deny of a card of the pending tab
dashboard_decide(reqs, clk, id, new_status, reviewer_name, rationale, pdf_ok) ==
    IF Strip(rationale) = ""
    THEN [requests |-> reqs, clock |-> clk, raised |-> FALSE]
    ELSE
        LET r == update_status(reqs, clk, reqs[id].id, new_status, reviewer_name, rationale)
            p == attach_pdf(r.requests, r.clock, id, reviewer_name, PagePdfPath)
        IN  IF pdf_ok
            THEN [requests |-> p.requests, clock |-> p.clock, raised |-> FALSE]
            ELSE [requests |-> r.requests, clock |-> r.clock, raised |-> TRUE]

DashboardDecide(reviewers, rationales) ==
    \E id \in 1..Len(requests), new_status \in {"APPROVED", "DENIED"},
       reviewer_name \in reviewers, rationale \in rationales, pdf_ok \in BOOLEAN :
        LET r == dashboard_decide(requests, clock, id, new_status, reviewer_name,
                                  rationale, pdf_ok)
        IN  /\ requests[id].status \in {"SUBMITTED", "UNDER_REVIEW"}
            /\ clock < MaxClock
            /\ requests' = r.requests
            /\ clock' = r.clock
            /\ last' = [op |-> "render_request_card"]
            /\ UNCHANGED <<cli, inflight, turnVars>>

---------------------------------------------------------------------------------------------------------------------------------------------------
(* The request lifecycle: valid submissions, fulfillment, documents, the reviewers *)

----------------------------------------------------------------------------
(* update_status run by threads: each Streamlit session runs its script in a thread of
   its own on the one db of the process, and update_status takes no lock, so its
   statements interleave with the other threads' operations *)

\* the frame of a call that has just been made
UpdateFrame(request_id, new_status, reviewer_name, rationale) ==
    [at |-> "lookup", request_id |-> request_id, new_status |-> new_status,
     reviewer_name |-> reviewer_name, rationale |-> rationale, old_status |-> None]

\* the next statement of update_status in the frame f: the store, the clock and the
\* frame after it (at = "done" when the call has returned)
update_status_step(reqs, clk, f) ==
    LET id == f.request_id
        decision == f.new_status \in {"APPROVED", "DENIED"}
    IN  CASE f.at = "lookup" ->
                IF get_request(reqs, id) = 0
                THEN [requests |-> reqs, clock |-> clk, frame |-> [f EXCEPT !.at = "done"]]
                ELSE [requests |-> reqs, clock |-> clk,
                      frame |-> [f EXCEPT !.at = "status", !.old_status = reqs[id].status]]
          [] f.at = "status" ->
                [requests |-> [reqs EXCEPT ![id].status = f.new_status],
                 clock |-> clk,
                 frame |-> [f EXCEPT !.at = IF decision THEN "decided_at" ELSE "audit"]]
          [] f.at = "decided_at" ->
                [requests |-> [reqs EXCEPT ![id].decided_at = clk],
                 clock |-> clk + 1,
                 frame |-> [f EXCEPT !.at = "reviewer_name"]]
          [] f.at = "reviewer_name" ->
                [requests |-> [reqs EXCEPT ![id].reviewer_name = f.reviewer_name],
                 clock |-> clk,
                 frame |-> [f EXCEPT !.at = "decision_rationale"]]
          [] f.at = "decision_rationale" ->
                [requests |-> [reqs EXCEPT ![id].decision_rationale = f.rationale],
                 clock |-> clk,
                 frame |-> [f EXCEPT !.at = "audit"]]
          [] f.at = "audit" ->
                [requests |-> [reqs EXCEPT ![id].audit_log =
                                  Append(@, AuditEntry(clk,
                                                       <<"Status changed", f.old_status, f.new_status>>,
                                                       IF Truthy(f.reviewer_name)
                                                       THEN f.reviewer_name ELSE "system"))],
                 clock |-> clk + 1,
                 frame |-> [f EXCEPT !.at = "done"]]

\* the sequence q without its k-th element
RemoveAt(q, k) == SubSeq(q, 1, k - 1) \o SubSeq(q, k + 1, Len(q))

\* a thread calls db.update_status
UpdateStatusCall(new_statuses, args) ==
    \E id \in 1..Len(requests), new_status \in new_statuses, a \in args :
        /\ Len(inflight) < MaxThreads
        /\ clock < MaxClock
        /\ inflight' = Append(inflight, UpdateFrame(id, new_status, a[1], a[2]))
        /\ UNCHANGED <<requests, clock, last, cli, turnVars>>

\* a thread inside update_status runs its next statement
UpdateStatusStep ==
    \E k \in 1..Len(inflight) :
        LET r == update_status_step(requests, clock, inflight[k])
        IN  /\ requests' = r.requests
            /\ clock' = r.clock
            /\ inflight' = IF r.frame.at = "done"
                           THEN RemoveAt(inflight, k)
                           ELSE [inflight EXCEPT ![k] = r.frame]
            /\ UNCHANGED <<last, cli, turnVars>>

ValidSubmitInputs == {ValidSubmit(u) : u \in Usernames}

ValidFulfillmentInputs == {ValidFulfillment(u) : u \in Usernames}

ValidUsernameInputs == {[usf_username |-> u] : u \in Usernames}

Next ==
    \/ SubmitExceptionRequest(ValidSubmitInputs)
    \/ SubmitFulfillmentInfo(ValidFulfillmentInputs)
    \/ GeneratePdfRecord(ValidUsernameInputs)
    \/ UpdateStatus(Statuses, DirectDecisionArgs)
    \/ ReviewOpen
    \/ ReviewCancel
    \/ ReviewDecide
    \/ ReviewPdf
    \/ DashboardDecide(ReviewerInputs, RationaleInputs)

Spec == Init /\ [][Next]_vars

\* the status workflow alone: submissions and every caller of db.update_status
NextStatus ==
    \/ SubmitExceptionRequest(ValidSubmitInputs)
    \/ UpdateStatus(Statuses, DirectDecisionArgs)
    \/ ReviewOpen
    \/ ReviewCancel
    \/ ReviewDecide
    \/ ReviewPdf
    \/ DashboardDecide(ReviewerInputs, RationaleInputs)

SpecStatus == Init /\ [][NextStatus]_vars

----------------------------------------------------------------------------
(* The tool executor under every input, with the store's update_status as the
   reviewer *)

NextTools ==
    \/ GetStudentInfo(UsernameInputs)
    \/ SubmitExceptionRequest(SubmitInputs)
    \/ CheckRequestStatus(UsernameInputs)
    \/ SubmitFulfillmentInfo(FulfillmentInputs)
    \/ GeneratePdfRecord(UsernameInputs)
    \/ UnknownTool
    \/ UpdateStatus(Statuses, TestDecisionArgs)

SpecTools == Init /\ [][NextTools]_vars

\* the tool calls of a student whose request the Registrar approves: every tool with
\* its well-formed and its defective inputs, and test_agent.py's approval
NextExecutors ==
    \/ GetStudentInfo(UsernameInputs)
    \/ SubmitExceptionRequest(SubmitInputs)
    \/ CheckRequestStatus(UsernameInputs)
    \/ SubmitFulfillmentInfo(FulfillmentInputs)
    \/ GeneratePdfRecord(UsernameInputs)
    \/ UnknownTool
    \/ UpdateStatus({"APPROVED"}, TestDecisionArgs)

SpecExecutors == Init /\ [][NextExecutors]_vars

\* the store under threads: submits, status reads, and the decisions of reviewers'
\* threads, update_status calls whose statements interleave with them
NextThreads ==
    \/ SubmitExceptionRequest(ValidSubmitInputs)
    \/ CheckRequestStatus(ValidUsernameInputs)
    \/ UpdateStatusCall(TERMINAL_STATUSES, TestDecisionArgs)
    \/ UpdateStatusStep

SpecThreads == Init /\ [][NextThreads]_vars

----------------------------------------------------------------------------
(* The dashboard run by two reviewer sessions: each session's script runs in a thread
   of its own, reads req.status at the guard of the decision form and, on a click with
   a rationale, calls db.update_status, generates the PDF and appends its entry *)

\* what the two reviewers enter: the button, the name field, the rationale
DashboardSessions ==
    {<<"APPROVED", "Dr. Jane Smith", "Student is in good standing.">>,
     <<"DENIED", "Registrar Staff", "A required course is missing.">>}

\* a session's rerun passes `req.status in ("SUBMITTED", "UNDER_REVIEW")`, its button
\* is clicked and the rationale is not blank: the handler is about to call update_status
DashboardClick(sessions) ==
    \E id \in 1..Len(requests), d \in sessions :
        /\ requests[id].status \in {"SUBMITTED", "UNDER_REVIEW"}
        /\ Strip(d[3]) # ""
        /\ Len(inflight) < MaxThreads
        /\ clock < MaxClock
        /\ inflight' = Append(inflight, UpdateFrame(requests[id].id, d[1], d[2], d[3]))
        /\ UNCHANGED <<requests, clock, last, cli, turnVars>>

\* the next statement of the click handler in the frame f: the statements of
\* update_status, then generate_pdf with req.pdf_path and the "PDF record generated" entry
dashboard_step(reqs, clk, f) ==
    IF f.at = "pdf"
    THEN LET p == attach_pdf(reqs, clk, f.request_id, f.reviewer_name, PagePdfPath)
         IN  [requests |-> p.requests, clock |-> p.clock, frame |-> [f EXCEPT !.at = "done"]]
    ELSE LET r == update_status_step(reqs, clk, f)
         IN  [r EXCEPT !.frame.at = IF @ = "done" THEN "pdf" ELSE @]

\* a session inside its click handler runs its next statement
DashboardStep ==
    \E k \in 1..Len(inflight) :
        LET r == dashboard_step(requests, clock, inflight[k])
        IN  /\ requests' = r.requests
            /\ clock' = r.clock
            /\ inflight' = IF r.frame.at = "done"
                           THEN RemoveAt(inflight, k)
                           ELSE [inflight EXCEPT ![k] = r.frame]
            /\ last' = [op |-> "render_request_card"]
            /\ UNCHANGED <<cli, turnVars>>

NextDashboard ==
    \/ SubmitExceptionRequest(ValidSubmitInputs)
    \/ DashboardClick(DashboardSessions)
    \/ DashboardStep

SpecDashboard == Init /\ [][NextDashboard]_vars

----------------------------------------------------------------------------
(* The student page: pages/1_Student_Request.py *)

\* _send_with_retry(chat, message, max_retries=2)
max_retries == 2

\* a wait that does not grow with the attempt
backoff_wait_constant(att) == 15

\* a backoff of 30 s per attempt made
backoff_wait_thirty(att) == 30 * (att + 1)

\* wait = 15 * (attempt + 1)
backoff_wait(att) == 15 * (att + 1)

RateLimitMessage ==
    "Rate limit reached. Please wait about a minute and try again. Your conversation is saved - nothing is lost."

\* what chat.send_message does at one attempt: it returns a response, or it raises
\* a ClientError whose text holds "429", another ClientError, or an error of another class
BackendFailures == {"ClientError 429", "ClientError 400", "ServerError 500"}

IsClientError(exc) == exc \in {"ClientError 429", "ClientError 400"}

Has429(exc) == exc = "ClientError 429"

\* the except clause with attempt <= max_retries: one retry too many
send_with_retry_on_error_off_by_one(att, exc) ==
    IF IsClientError(exc) /\ Has429(exc) /\ att <= max_retries
    THEN [do |-> "sleep", wait |-> backoff_wait(att)]
    ELSE [do |-> "raise", wait |-> 0]

\* the except clause without the "429" test: every ClientError is retried
send_with_retry_on_error_any_client_error(att, exc) ==
    IF IsClientError(exc) /\ att < max_retries
    THEN [do |-> "sleep", wait |-> backoff_wait(att)]
    ELSE [do |-> "raise", wait |-> 0]

\* the except clause of _send_with_retry: sleep and go round again, or raise
send_with_retry_on_error(att, exc) ==
    IF IsClientError(exc) /\ Has429(exc) /\ att < max_retries
    THEN [do |-> "sleep", wait |-> backoff_wait(att)]
    ELSE [do |-> "raise", wait |-> 0]

\* the except clause of send_and_handle_tools: the message to return, or re-raise
handle_client_error(exc) ==
    IF IsClientError(exc) /\ Has429(exc)
    THEN [do |-> "return", reply |-> RateLimitMessage]
    ELSE [do |-> "raise", reply |-> ""]

\* response.text without the `or ""`
text_as_given(resp) == resp.text

\* response.text or ""
text_or_empty(resp) == IF Truthy(resp.text) THEN resp.text ELSE ""

\* m["role"].upper()
Upper(role) == IF role = "user" THEN "USER" ELSE IF role = "assistant" THEN "ASSISTANT" ELSE role

\* a transcript save that extends the stored conversation_history with the messages
save_conversation_appends(reqs, msgs) ==
    LET id == get_request_by_username(reqs, get_sso_username)
    IN  IF id = 0 THEN reqs
        ELSE [reqs EXCEPT ![id].conversation_history =
                 @ \o [k \in 1..Len(msgs) |->
                         [role |-> Upper(msgs[k].role), content |-> msgs[k].content]]]

\* the chat-input handler after send_and_handle_tools returned: the reply is appended to
\* the messages and the record of the signed-in user, when there is one, gets the
\* messages as its conversation_history
save_conversation(reqs, msgs) ==
    LET id == get_request_by_username(reqs, get_sso_username)
    IN  IF id = 0 THEN reqs
        ELSE [reqs EXCEPT ![id].conversation_history =
                 [k \in 1..Len(msgs) |->
                     [role |-> Upper(msgs[k].role), content |-> msgs[k].content]]]

Call(name, args) == [name |-> name, args |-> args]

\* the function_calls of the responses the backend gives
FunctionCallLists ==
    {<<Call("submit_exception_request", ValidSubmit(get_sso_username))>>,
     <<Call("check_request_status", [usf_username |-> get_sso_username]),
       Call("submit_fulfillment_info", ValidFulfillment(get_sso_username))>>,
     <<Call("generate_pdf_record", [usf_username |-> get_sso_username])>>}

TextResponses ==
    {[function_calls |-> <<>>, text |-> "Your request is with the Registrar."],
     [function_calls |-> <<>>, text |-> None]}

CallResponses == {[function_calls |-> fcs, text |-> None] : fcs \in FunctionCallLists}

UserInputs == {"What is the status of my request?"}

InitialMessage == "[SYSTEM: Student has authenticated via Shibboleth SSO.]"

\* dispatches answered so far in the chat's history: each adds the message and the
\* response
Dispatches == Len(chat) \div 2

NewSubmits(fcs) == Cardinality({k \in 1..Len(fcs) : fcs[k].name = "submit_exception_request"})

\* a replay that runs the function calls of the stored history again
BeginTurnReexecutes(message) ==
    LET called == {k \in 1..Len(gemini_history) :
                      /\ gemini_history[k].role = "model"
                      /\ gemini_history[k].parts.function_calls # <<>>}
        k == CHOOSE j \in called : \A i \in called : i <= j
    IN  /\ chat' = gemini_history
        /\ msg' = message
        /\ attempt' = 0
        /\ attemptLog' = <<>>
        /\ sleeps' = <<>>
        /\ parts' = <<>>
        /\ turns' = turns + 1
        /\ IF called = {}
           THEN /\ fcIndex' = 0
                /\ pc' = "send"
                /\ executed' = <<>>
                /\ response' = response
           ELSE /\ fcIndex' = 1
                /\ pc' = "tools"
                /\ executed' = <<<<>>>>
                /\ response' = gemini_history[k].parts

\* send_and_handle_tools up to its first dispatch: a fresh chat replays gemini_history
BeginTurn(message) ==
    /\ chat' = gemini_history
    /\ msg' = message
    /\ attempt' = 0
    /\ attemptLog' = <<>>
    /\ sleeps' = <<>>
    /\ fcIndex' = 0
    /\ parts' = <<>>
    /\ pc' = "send"
    /\ turns' = turns + 1
    /\ executed' = <<>>
    /\ response' = response

\* the first run of the script: messages and gemini_history are initialised and the
\* greeting turn begins
StartGreeting ==
    /\ pc = "idle"
    /\ turns = 0
    /\ messages' = <<>>
    /\ BeginTurn(<<[text |-> InitialMessage]>>)
    /\ UNCHANGED <<requests, clock, last, cli, inflight, gemini_history>>

\* st.chat_input: the user's message is appended and the turn begins
StartTurnWithin(max_turns) ==
    \E user_input \in UserInputs :
        /\ pc = "idle"
        /\ turns \in 1..(max_turns - 1)
        /\ messages' = Append(messages, [role |-> "user", content |-> user_input])
        /\ BeginTurn(<<[text |-> user_input]>>)
        /\ UNCHANGED <<requests, clock, last, cli, inflight, gemini_history>>

StartTurn == StartTurnWithin(MaxTurns)

\* send_and_handle_tools returned `reply`: the rest of the script run
EndTurn(reply, history) ==
    LET msgs == Append(messages, [role |-> "assistant", content |-> reply])
    IN  /\ messages' = msgs
        /\ requests' = IF turns = 1 THEN requests ELSE save_conversation(requests, msgs)
        /\ gemini_history' = history
        /\ last' = [op |-> "send_and_handle_tools", raised |-> FALSE, reply |-> reply]
        /\ pc' = "idle"

\* an exception left send_and_handle_tools: the script run ends there
AbortTurn(exc) ==
    /\ last' = [op |-> "send_and_handle_tools", raised |-> TRUE, exc |-> exc]
    /\ pc' = "idle"
    /\ UNCHANGED <<messages, gemini_history>>

\* chat.send_message returns a response with function calls although a round was
\* already run: an `if` in place of the `while` takes that response for the final one
BackendCallsOnce(responses, max_dispatches) ==
    \E resp \in responses :
        LET history == chat \o <<[role |-> "user", parts |-> msg],
                                 [role |-> "model", parts |-> resp]>>
        IN  /\ pc = "send"
            /\ Dispatches + 1 < max_dispatches
            /\ clock < MaxClock
            /\ Len(requests) + NewSubmits(resp.function_calls) <= MaxRequests
            /\ attemptLog' = Append(attemptLog, "ok")
            /\ chat' = history
            /\ response' = resp
            /\ IF executed = <<>>
               THEN /\ fcIndex' = 1
                    /\ parts' = <<>>
                    /\ pc' = "tools"
                    /\ executed' = Append(executed, <<>>)
                    /\ UNCHANGED <<requests, last, gemini_history, messages>>
               ELSE /\ EndTurn(text_or_empty(resp), history)
                    /\ UNCHANGED <<fcIndex, parts, executed>>
            /\ UNCHANGED <<clock, cli, inflight, msg, attempt, sleeps, turns>>

\* chat.send_message returns a response with function calls: the tool loop is entered
BackendCalls(responses, max_dispatches) ==
    \E resp \in responses :
        /\ pc = "send"
        /\ Dispatches + 1 < max_dispatches
        /\ clock < MaxClock
        /\ Len(requests) + NewSubmits(resp.function_calls) <= MaxRequests
        /\ attemptLog' = Append(attemptLog, "ok")
        /\ chat' = chat \o <<[role |-> "user", parts |-> msg],
                             [role |-> "model", parts |-> resp]>>
        /\ response' = resp
        /\ fcIndex' = 1
        /\ parts' = <<>>
        /\ pc' = "tools"
        /\ executed' = Append(executed, <<>>)
        /\ UNCHANGED <<requests, clock, last, cli, inflight, msg, attempt, sleeps, gemini_history,
                       messages, turns>>

\* chat.send_message returns a response without function calls: the loop ends, the
\* history is stored and the text is the reply
BackendText ==
    \E resp \in TextResponses :
        LET history == chat \o <<[role |-> "user", parts |-> msg],
                                 [role |-> "model", parts |-> resp]>>
        IN  /\ pc = "send"
            /\ attemptLog' = Append(attemptLog, "ok")
            /\ chat' = history
            /\ response' = resp
            /\ EndTurn(text_or_empty(resp), history)
            /\ UNCHANGED <<clock, cli, inflight, msg, attempt, sleeps, fcIndex, parts, turns, executed>>

\* a failed dispatch that ends the turn as a transaction would: the records the turn's
\* completed submit_exception_request calls created are taken out of the store again
BackendFailsRollsBack ==
    \E exc \in BackendFailures :
        LET r == send_with_retry_on_error(attempt, exc)
            h == handle_client_error(exc)
            created == Cardinality({<<k, j>> \in (1..Len(executed)) \X (1..MaxRequests) :
                                      /\ j <= Len(executed[k])
                                      /\ executed[k][j].name = "submit_exception_request"})
            kept == SubSeq(requests, 1, Len(requests) - created)
        IN  /\ pc = "send"
            /\ attemptLog' = Append(attemptLog, exc)
            /\ IF r.do = "sleep"
               THEN /\ sleeps' = Append(sleeps, r.wait)
                    /\ attempt' = attempt + 1
                    /\ UNCHANGED <<requests, last, pc, gemini_history, messages>>
               ELSE IF h.do = "return"
               THEN /\ messages' = Append(messages, [role |-> "assistant", content |-> h.reply])
                    /\ requests' = kept
                    /\ last' = [op |-> "send_and_handle_tools", raised |-> FALSE,
                                reply |-> h.reply]
                    /\ pc' = "idle"
                    /\ UNCHANGED <<gemini_history, sleeps, attempt>>
               ELSE /\ AbortTurn(exc)
                    /\ requests' = kept
                    /\ UNCHANGED <<sleeps, attempt>>
            /\ UNCHANGED <<clock, cli, inflight, msg, response, fcIndex, parts, chat, turns, executed>>

\* chat.send_message raises: _send_with_retry sleeps and tries again, or raises, and
\* send_and_handle_tools returns the rate-limit message or lets the exception go
BackendFails ==
    \E exc \in BackendFailures :
        LET r == send_with_retry_on_error(attempt, exc)
            h == handle_client_error(exc)
        IN  /\ pc = "send"
            /\ attemptLog' = Append(attemptLog, exc)
            /\ IF r.do = "sleep"
               THEN /\ sleeps' = Append(sleeps, r.wait)
                    /\ attempt' = attempt + 1
                    /\ UNCHANGED <<requests, last, pc, gemini_history, messages>>
               ELSE IF h.do = "return"
               THEN /\ EndTurn(h.reply, gemini_history)
                    /\ UNCHANGED <<sleeps, attempt>>
               ELSE /\ AbortTurn(exc)
                    /\ UNCHANGED <<requests, sleeps, attempt>>
            /\ UNCHANGED <<clock, cli, inflight, msg, response, fcIndex, parts, chat, turns, executed>>

\* one pass of the for loop over response.function_calls; after the last call the
\* round's response_parts are dispatched
ExecuteCall ==
    \E pdf_ok \in BOOLEAN :
        LET fc == response.function_calls[fcIndex]
            r == page_execute_tool(fc.name, fc.args, requests, clock, pdf_ok)
            collected == Append(parts, [name |-> fc.name, response |-> r.out.result])
        IN  /\ pc = "tools"
            /\ requests' = r.requests
            /\ clock' = r.clock
            /\ IF r.out.raised
               THEN /\ AbortTurn(r.out.exc)
                    /\ UNCHANGED <<msg, attempt, attemptLog, sleeps, fcIndex, parts>>
               ELSE /\ last' = [op |-> fc.name, input |-> fc.args, out |-> r.out]
                    /\ UNCHANGED <<gemini_history, messages>>
                    /\ IF fcIndex < Len(response.function_calls)
                       THEN /\ fcIndex' = fcIndex + 1
                            /\ parts' = collected
                            /\ UNCHANGED <<pc, msg, attempt, attemptLog, sleeps>>
                       ELSE /\ msg' = collected
                            /\ parts' = collected
                            /\ fcIndex' = 0
                            /\ attempt' = 0
                            /\ attemptLog' = <<>>
                            /\ sleeps' = <<>>
                            /\ pc' = "send"
            /\ executed' = [executed EXCEPT ![Len(executed)] = Append(@, fc)]
            /\ UNCHANGED <<cli, inflight, response, chat, turns>>

NextSession ==
    \/ StartGreeting
    \/ StartTurn
    \/ BackendCalls(CallResponses, MaxDispatches)
    \/ BackendText
    \/ BackendFails
    \/ ExecuteCall
    \/ DashboardDecide({"Dr. Jane Smith"}, {"ok"})

SpecSession == Init /\ [][NextSession]_vars

\* the turn loop alone, with responses that make it run several rounds, rounds of
\* several calls, and a call whose arguments are missing
LoopCallLists ==
    {<<Call("submit_exception_request", ValidSubmit(get_sso_username))>>,
     <<Call("check_request_status", [usf_username |-> get_sso_username]),
       Call("get_student_info", [usf_username |-> get_sso_username])>>,
     <<Call("get_student_info", EmptyDict),
       Call("check_request_status", [usf_username |-> get_sso_username])>>}

LoopResponses == {[function_calls |-> fcs, text |-> None] : fcs \in LoopCallLists}

NextLoop ==
    \/ StartGreeting
    \/ StartTurn
    \/ BackendCalls(LoopResponses, MaxLoopDispatches)
    \/ BackendText
    \/ BackendFails
    \/ ExecuteCall

SpecLoop == Init /\ [][NextLoop]_vars

\* the turn loop with a program that keeps running and a backend that does not go on
\* asking for tools for ever: a pending tool call is executed, and a message that is
\* sent again and again is at last answered with a response without function calls
SpecLoopLive ==
    /\ Init
    /\ [][NextLoop]_vars
    /\ WF_vars(ExecuteCall)
    /\ SF_vars(BackendText)

\* a backend that requests a tool in every response: the loop of send_and_handle_tools
\* goes round as long as it does
RunawayResponses ==
    {[function_calls |-> <<Call("check_request_status", [usf_username |-> get_sso_username])>>,
      text |-> None]}

NextRunaway ==
    \/ StartGreeting
    \/ StartTurn
    \/ BackendCalls(RunawayResponses, MaxRunawayDispatches)
    \/ BackendText
    \/ BackendFails
    \/ ExecuteCall

SpecRunaway == Init /\ [][NextRunaway]_vars

\* a session of several user turns: the chat-input handler saves the transcript after
\* each of them
NextTranscript ==
    \/ StartGreeting
    \/ StartTurnWithin(MaxTranscriptTurns)
    \/ BackendCalls(LoopResponses, MaxLoopDispatches)
    \/ BackendText
    \/ BackendFails
    \/ ExecuteCall

SpecTranscript == Init /\ [][NextTranscript]_vars

----------------------------------------------------------------------------
(* Properties *)

\* the last operation was a call of execute_tool that returned a result
Returned == "out" \in DOMAIN last /\ ~last.out.raised

ReturnedSuccess == Returned /\ last.out.result.success

\* the same of the operation that a step runs
ReturnedNext == "out" \in DOMAIN last' /\ ~last'.out.raised

\* the records of a username, and the one the store hands out for it
RecordsOf(u) == {i \in 1..Len(requests) : requests[i].usf_username = u}

IsRecordOf(i, u) == i \in RecordsOf(u) /\ \A j \in RecordsOf(u) : i <= j

\* C1: a check_request_status call made directly after a successful
\* submit_exception_request with valid input, for the same usf_username, returns
\* success = true with status SUBMITTED.
C1_SubmitThenCheckIsSubmitted ==
    [][(/\ last.op = "submit_exception_request"
        /\ last.input \in ValidSubmitInputs
        /\ ReturnedSuccess
        /\ last'.op = "check_request_status"
        /\ last'.input = [usf_username |-> last.input["usf_username"]])
       => (/\ ReturnedNext
           /\ last'.out.result.success
           /\ last'.out.result.status = "SUBMITTED")]_vars

\* C2: submit_fulfillment_info returns success = false whenever the requester has no
\* record or the requester's record has a status other than APPROVED, and it returns
\* success = true only when that status is APPROVED.
C2_FulfillmentGuard ==
    [][(/\ last'.op = "submit_fulfillment_info"
        /\ "usf_username" \in DOMAIN last'.input)
       => LET u == last'.input["usf_username"]
              approved == \E i \in 1..Len(requests) :
                              IsRecordOf(i, u) /\ requests[i].status = "APPROVED"
          IN  /\ ~approved => (ReturnedNext /\ ~last'.out.result.success)
              /\ (ReturnedNext /\ last'.out.result.success) => approved]_vars

\* C2 witness: the call has succeeded for a requester whose record is APPROVED
C2_Witness ==
    /\ last.op = "submit_fulfillment_info"
    /\ ReturnedSuccess
    /\ \E i \in 1..Len(requests) :
          /\ IsRecordOf(i, last.input["usf_username"])
          /\ requests[i].status = "APPROVED"
          /\ requests[i].fulfillment_status = "PENDING"

\* C3: a decision is made once: on a record that is APPROVED or DENIED no operation
\* changes reviewer_name, decision_rationale, decided_at or the status.
C3_DecisionSetOnce ==
    [][\A i \in 1..Len(requests) :
          requests[i].status \in TERMINAL_STATUSES
          => /\ requests'[i].reviewer_name = requests[i].reviewer_name
             /\ requests'[i].decision_rationale = requests[i].decision_rationale
             /\ requests'[i].decided_at = requests[i].decided_at
             /\ requests'[i].status = requests[i].status]_vars

\* C4: once a record is APPROVED or DENIED its status never changes again.
C4_TerminalIsFinal ==
    [][\A i \in 1..Len(requests) :
          requests[i].status \in TERMINAL_STATUSES
          => requests'[i].status = requests[i].status]_vars

\* C6: execute_tool never raises: every call returns a result with a success flag and
\* either a payload or an error description.
C6_ExecuteToolNeverRaises ==
    "out" \in DOMAIN last
    => /\ ~last.out.raised
       /\ "success" \in DOMAIN last.out.result
       /\ ~last.out.result.success => "error" \in DOMAIN last.out.result

\* C7: submit_exception_request returns success = false and creates no record when one
\* of its ten required fields is absent or is the empty string.
C7_SubmitRejectsMissingField ==
    [][(/\ last'.op = "submit_exception_request"
        /\ \E k \in Range(SubmitRequired) :
              k \notin DOMAIN last'.input \/ last'.input[k] = "")
       => (/\ ReturnedNext
           /\ ~last'.out.result.success
           /\ requests' = requests)]_vars

\* C8: at most one record per usf_username is in flight (SUBMITTED or UNDER_REVIEW).
C8_OneInFlightPerRequester ==
    \A u \in Usernames :
        Cardinality({i \in RecordsOf(u) : requests[i].status \in PENDING_STATUSES}) <= 1

\* C5: the audit log of a record is append-only: over every step the log before is a
\* prefix of the log after, and no record leaves the store.
C5_AuditLogAppendOnly ==
    [][/\ Len(requests') >= Len(requests)
       /\ \A i \in 1..Len(requests) :
             IsPrefix(requests[i].audit_log, requests'[i].audit_log)]_vars

\* C5 witness: a record that was submitted, decided and given its document, and whose
\* transcript was saved
C5_Witness ==
    \E i \in 1..Len(requests) :
        /\ Len(requests[i].audit_log) >= 3
        /\ requests[i].conversation_history # <<>>

RECURSIVE SumSeq(_)
SumSeq(q) == IF q = <<>> THEN 0 ELSE Head(q) + SumSeq(Tail(q))

RateLimited == "ClientError 429"

\* C9: when the backend fails a dispatch with a rate-limit error twice and then
\* answers, _send_with_retry tries a third time and returns that answer, having slept
\* 15 s after the first failure and 30 s after the second, 45 s in total.
C9_RetrySucceedsOnThirdAttempt ==
    /\ attemptLog = <<RateLimited, RateLimited>>
       => pc = "send" /\ attempt = 2 /\ sleeps = <<15, 30>>
    /\ attemptLog = <<RateLimited, RateLimited, "ok">>
       => /\ attempt = 2
          /\ sleeps = <<15, 30>>
          /\ SumSeq(sleeps) = 45
          /\ response = chat[Len(chat)].parts

\* C9 witness: a dispatch answered at its third attempt
C9_Witness ==
    /\ attemptLog = <<RateLimited, RateLimited, "ok">>
    /\ sleeps = <<15, 30>>

\* C10: a dispatch is attempted at most 3 times (2 retries); when all three attempts
\* are rate-limited the turn ends with the explanatory message as the reply, and no
\* exception reaches the caller of send_and_handle_tools.
C10_RateLimitSurfacedAsReply ==
    /\ Len(attemptLog) <= 3
    /\ Len(sleeps) <= 2
    /\ attemptLog = <<RateLimited, RateLimited, RateLimited>>
       => /\ pc = "idle"
          /\ messages # <<>>
          /\ messages[Len(messages)] = [role |-> "assistant", content |-> RateLimitMessage]
          /\ last.op = "send_and_handle_tools" => ~last.raised

\* C10 witness: three rate-limited attempts and the message shown to the user
C10_Witness ==
    /\ attemptLog = <<RateLimited, RateLimited, RateLimited>>
    /\ messages # <<>>
    /\ messages[Len(messages)].content = RateLimitMessage

NotRateLimited == BackendFailures \ {RateLimited}

\* C11: a backend failure that is not a rate-limit failure ends the turn at the attempt
\* that met it: no retry, no sleep, the exception leaves send_and_handle_tools, and
\* the store, the stored history and the displayed messages stay as they were.
C11_OtherFailurePropagatesAtOnce ==
    [][\A exc \in NotRateLimited :
          (pc = "send" /\ attemptLog' = Append(attemptLog, exc))
          => /\ pc' = "idle"
             /\ last' = [op |-> "send_and_handle_tools", raised |-> TRUE, exc |-> exc]
             /\ sleeps' = sleeps
             /\ attempt' = attempt
             /\ UNCHANGED <<requests, gemini_history, messages, chat>>]_vars

\* C11 witness: a turn aborted by a failure of its first attempt, nothing slept
C11_Witness ==
    /\ last.op = "send_and_handle_tools"
    /\ last.raised
    /\ last.exc \in NotRateLimited
    /\ attemptLog = <<last.exc>>
    /\ sleeps = <<>>

\* C12: when a turn has ended with the rate-limit message, the history stored for the
\* next turn holds every exchange the turn completed, the tool calls it executed and
\* their results included.
C12_HistoryKeptAfterRateLimit ==
    (/\ pc = "idle"
     /\ last.op = "send_and_handle_tools"
     /\ ~last.raised
     /\ last.reply = RateLimitMessage)
    => gemini_history = chat

\* the exchanges the current turn has added to the chat, given the chat
TurnExchanges(c) == SubSeq(c, Len(gemini_history) + 1, Len(c))

\* the k-th response of the turn
TurnResponse(c, k) == TurnExchanges(c)[2 * k].parts

\* a step in which send_and_handle_tools returns the text of a backend response
ReturnsText ==
    /\ pc = "send"
    /\ pc' = "idle"
    /\ attemptLog' = Append(attemptLog, "ok")

\* C13: the loop runs one round of tool execution per response that requests tools and
\* returns at the first response that requests none; when the first 3 responses of a
\* turn request tools and the 4th does not, it has run exactly 3 rounds and made
\* exactly 4 dispatches, and it returns the text of the 4th response.
C13_LoopEndsAtFirstTextResponse ==
    [][ReturnsText
       => LET n == Len(TurnExchanges(chat')) \div 2
          IN  /\ Len(TurnExchanges(chat')) = 2 * n
              /\ Len(executed') = n - 1
              /\ \A k \in 1..(n - 1) :
                    /\ TurnResponse(chat', k).function_calls # <<>>
                    /\ Len(executed'[k]) = Len(TurnResponse(chat', k).function_calls)
              /\ TurnResponse(chat', n).function_calls = <<>>
              /\ last' = [op |-> "send_and_handle_tools", raised |-> FALSE,
                          reply |-> text_or_empty(TurnResponse(chat', n))]
              /\ (/\ n >= 4
                  /\ \A k \in 1..3 : TurnResponse(chat', k).function_calls # <<>>
                  /\ TurnResponse(chat', 4).function_calls = <<>>)
                 => n = 4 /\ Len(executed') = 3]_vars

\* C13 witness: a turn of 3 rounds and 4 dispatches that returned the 4th response's text
C13_Witness ==
    /\ pc = "idle"
    /\ last.op = "send_and_handle_tools"
    /\ ~last.raised
    /\ last.reply = "Your request is with the Registrar."
    /\ Len(executed) = 3
    /\ \A k \in 1..3 : executed[k] # <<>>
    /\ Len(chat) = 8

\* C14: within a round every function call of the response is executed exactly once,
\* in the order of the response, and the round ends with one follow-up dispatch that
\* carries one result per call, in the same order, each under the name of its call.
C14_RoundExecutesEveryCallInOrder ==
    [][/\ pc = "tools"
          => executed[Len(executed)] = SubSeq(response.function_calls, 1, fcIndex - 1)
       /\ (pc = "tools" /\ pc' # "tools")
          => /\ pc' = "send"
             /\ executed'[Len(executed')] = response.function_calls
             /\ Len(msg') = Len(response.function_calls)
             /\ \A k \in 1..Len(msg') : msg'[k].name = response.function_calls[k].name]_vars

\* the records without their saved transcripts
WithoutTranscript(reqs) ==
    [i \in 1..Len(reqs) |-> [reqs[i] EXCEPT !.conversation_history = <<>>]]

\* C15: replaying the stored history executes nothing: the step that starts a turn
\* leaves the record store as it is and has executed no tool, and every tool that is
\* executed answers a function call of the response the backend has just returned in
\* the current turn, the last entry of the chat, which the replayed history does not hold.
C15_ReplayExecutesNothing ==
    [][/\ (pc = "idle" /\ pc' = "send")
          => /\ requests' = requests
             /\ clock' = clock
             /\ executed' = <<>>
             /\ chat' = gemini_history
       /\ executed' # executed /\ executed' # <<>>
          => /\ pc = "tools" \/ pc' = "tools"
             /\ Len(chat') > Len(gemini_history)
             /\ chat'[Len(chat')].role = "model"
             /\ LET fcs == chat'[Len(chat')].parts.function_calls
                    round == executed'[Len(executed')]
                IN  round = SubSeq(fcs, 1, Len(round))
       /\ WithoutTranscript(requests') # WithoutTranscript(requests)
          => /\ pc = "tools"
             /\ Len(executed'[Len(executed')]) = Len(executed[Len(executed)]) + 1]_vars

\* C15 witness: a second turn has begun on a stored history that holds an executed
\* submit_exception_request, and the store holds the one record of the first turn
C15_Witness ==
    /\ turns = 2
    /\ pc = "send"
    /\ executed = <<>>
    /\ \E k \in 1..Len(gemini_history) :
          /\ gemini_history[k].role = "model"
          /\ gemini_history[k].parts.function_calls # <<>>
          /\ gemini_history[k].parts.function_calls[1].name = "submit_exception_request"
    /\ Len(requests) = 1

FulfillmentFields ==
    {"gown_size", "cap_size", "mailing_street", "mailing_city", "mailing_state",
     "mailing_zip", "fulfillment_status"}

\* C16: the fulfillment fields of a record are set only while its status is APPROVED:
\* on a SUBMITTED, UNDER_REVIEW or DENIED record all seven are unset.
C16_FulfillmentOnlyWhenApproved ==
    \A i \in 1..Len(requests) :
        requests[i].status # "APPROVED"
        => \A f \in FulfillmentFields : requests[i][f] = None

\* C17: on an APPROVED record a submit_fulfillment_info call that supplies both sizes
\* and the four address parts succeeds; the record takes them as supplied and
\* fulfillment_status PENDING, gets exactly one more audit entry, whose actor is the
\* requester, and is otherwise unchanged (status and decision fields included), as
\* are the other records.
C17_FulfillmentStoresAsSupplied ==
    [][(/\ last'.op = "submit_fulfillment_info"
        /\ HasKeys(last'.input, FulfillmentRequired)
        /\ \E i \in 1..Len(requests) :
              /\ IsRecordOf(i, last'.input["usf_username"])
              /\ requests[i].status = "APPROVED")
       => LET in == last'.input
              i == CHOOSE j \in 1..Len(requests) : IsRecordOf(j, in["usf_username"])
          IN  /\ ReturnedNext
              /\ last'.out.result.success
              /\ Len(requests') = Len(requests)
              /\ \A j \in 1..Len(requests) : j # i => requests'[j] = requests[j]
              /\ Len(requests'[i].audit_log) = Len(requests[i].audit_log) + 1
              /\ requests'[i].audit_log[Len(requests'[i].audit_log)].actor = in["usf_username"]
              /\ requests'[i] =
                    [requests[i] EXCEPT !.gown_size = in["gown_size"],
                                        !.cap_size = in["cap_size"],
                                        !.mailing_street = in["mailing_street"],
                                        !.mailing_city = in["mailing_city"],
                                        !.mailing_state = in["mailing_state"],
                                        !.mailing_zip = in["mailing_zip"],
                                        !.fulfillment_status = "PENDING",
                                        !.audit_log = Append(@, requests'[i].audit_log[Len(@) + 1])]
              /\ requests'[i].status = "APPROVED"
              /\ requests'[i].reviewer_name = requests[i].reviewer_name
              /\ requests'[i].decision_rationale = requests[i].decision_rationale
              /\ requests'[i].decided_at = requests[i].decided_at]_vars

\* C17 witness: the call has stored sizes and address on an APPROVED record that keeps
\* its reviewer and its rationale
C17_Witness ==
    /\ last.op = "submit_fulfillment_info"
    /\ ReturnedSuccess
    /\ \E i \in 1..Len(requests) :
          /\ IsRecordOf(i, last.input["usf_username"])
          /\ requests[i].status = "APPROVED"
          /\ requests[i].gown_size = last.input["gown_size"]
          /\ requests[i].mailing_zip = last.input["mailing_zip"]
          /\ requests[i].fulfillment_status = "PENDING"
          /\ requests[i].reviewer_name = "Dr. Jane Smith"
          /\ Len(requests[i].audit_log) = 3

\* C18: every APPROVED or DENIED record has a non-empty decision_rationale and a
\* non-empty reviewer_name.
C18_DecisionHasRationaleAndReviewer ==
    \A i \in 1..Len(requests) :
        requests[i].status \in TERMINAL_STATUSES
        => /\ Truthy(requests[i].decision_rationale)
           /\ Truthy(requests[i].reviewer_name)

\* C19: an update_status call that names an identifier absent from the store signals
\* the failure to its caller, its outcome is not the None of a call that found the
\* record, and leaves the store unchanged; get_request reports an absent identifier
\* as not found; get_all_requests answers on every store, the empty one included.
C19_AbsentIdentifierIsSignalled ==
    [][/\ (last'.op = "update_status" /\ ~last'.known)
          => /\ last'.returned # None
             /\ requests' = requests
       /\ get_request(requests, Len(requests) + 1) = 0
       /\ get_all_requests(<<>>, None) = <<>>
       /\ Len(get_all_requests(requests, None)) = Len(requests)]_vars

\* the status changes the audit log of a record tells of
StatusChanges(req) == SelectSeq(req.audit_log, LAMBDA e : e.action[1] = "Status changed")

\* the status of the record is the one its audit log ends with
StatusMatchesAudit(req) ==
    LET changes == StatusChanges(req)
    IN  IF changes = <<>> THEN req.status = "SUBMITTED"
        ELSE req.status = changes[Len(changes)].action[3]

\* C20: no reader running beside an update_status call sees a partial write: a
\* check_request_status that reports APPROVED or DENIED reports decided_at, reviewer
\* and rationale as set, and at every moment a record's status is the one its last
\* status-change audit entry tells of.
C20_NoPartialWriteObserved ==
    /\ (/\ last.op = "check_request_status"
        /\ ReturnedSuccess
        /\ last.out.result.status \in TERMINAL_STATUSES)
       => /\ last.out.result.decided_at # NoTime
          /\ last.out.result.reviewer # None
          /\ last.out.result.rationale # None
    /\ \A i \in 1..Len(requests) : StatusMatchesAudit(requests[i])

\* C21: get_student_info for a username without a profile returns success = false with
\* an error description and raises nothing; for a username with a profile it returns
\* success = true with that profile; the record store is the same after the call.
C21_StudentInfoIsAResult ==
    [][(/\ last'.op = "get_student_info"
        /\ "usf_username" \in DOMAIN last'.input)
       => LET u == last'.input["usf_username"]
          IN  /\ ReturnedNext
              /\ requests' = requests
              /\ IF u \in DOMAIN BANNER_RECORDS
                 THEN /\ last'.out.result.success
                      /\ last'.out.result.student_info = BANNER_RECORDS[u]
                 ELSE /\ ~last'.out.result.success
                      /\ "error" \in DOMAIN last'.out.result
                      /\ last'.out.result.error # <<>>]_vars

\* C21 witness: the lookup of an unknown username has returned its failure result on a
\* store that holds a record
C21_Witness ==
    /\ last.op = "get_student_info"
    /\ Returned
    /\ ~last.out.result.success
    /\ last.input["usf_username"] \notin DOMAIN BANNER_RECORDS
    /\ requests # <<>>

\* C22: check_request_status returns success = false when the user has no record;
\* otherwise it returns the status the record has now, with decided_at, reviewer and
\* rationale exactly when that status is APPROVED or DENIED, and with
\* fulfillment_status exactly when the record has one.
C22_StatusReportFields ==
    [][(/\ last'.op = "check_request_status"
        /\ "usf_username" \in DOMAIN last'.input)
       => LET u == last'.input["usf_username"]
              result == last'.out.result
          IN  /\ ReturnedNext
              /\ result.success <=> (\E i \in 1..Len(requests') : requests'[i].usf_username = u)
              /\ result.success =>
                   LET request == requests'[result.request_id]
                       decided == request.status \in {"APPROVED", "DENIED"}
                       DecisionKeys == {"decided_at", "reviewer", "rationale"}
                   IN  /\ request.usf_username = u
                       /\ result.status = request.status
                       /\ IF decided
                          THEN /\ DecisionKeys \subseteq DOMAIN result
                               /\ result.decided_at = request.decided_at
                               /\ result.reviewer = request.reviewer_name
                               /\ result.rationale = request.decision_rationale
                          ELSE DecisionKeys \cap DOMAIN result = {}
                       /\ IF request.fulfillment_status # None
                          THEN /\ "fulfillment_status" \in DOMAIN result
                               /\ result.fulfillment_status = request.fulfillment_status
                          ELSE "fulfillment_status" \notin DOMAIN result]_vars

\* C22 witness: a status check has reported a decided record that has its fulfillment
\* status set
C22_Witness ==
    /\ last.op = "check_request_status"
    /\ Returned
    /\ last.out.result.success
    /\ last.out.result.status = "APPROVED"
    /\ "rationale" \in DOMAIN last.out.result
    /\ "fulfillment_status" \in DOMAIN last.out.result

\* C23: when the command-line reviewer opens a SUBMITTED record, the record becomes
\* UNDER_REVIEW, exactly one entry is appended to its audit log, and its decision
\* fields (decided_at, reviewer_name, decision_rationale) stay as they were, unset.
C23_OpenMarksUnderReview ==
    [][(/\ cli.stage = "menu"
        /\ cli'.stage = "choice"
        /\ requests[cli'.req].status = "SUBMITTED")
       => LET before == requests[cli'.req]
              after == requests'[cli'.req]
          IN  /\ Len(requests') = Len(requests)
              /\ after.status = "UNDER_REVIEW"
              /\ Len(after.audit_log) = Len(before.audit_log) + 1
              /\ IsPrefix(before.audit_log, after.audit_log)
              /\ after.decided_at = before.decided_at
              /\ after.reviewer_name = before.reviewer_name
              /\ after.decision_rationale = before.decision_rationale
              /\ (Len(before.audit_log) = 1 =>
                    /\ after.decided_at = NoTime
                    /\ after.reviewer_name = None
                    /\ after.decision_rationale = None)]_vars

\* C23 witness: the reviewer has opened a freshly submitted request, which is now
\* UNDER_REVIEW with two audit entries and no decision
C23_Witness ==
    /\ cli.stage = "choice"
    /\ requests[cli.req].status = "UNDER_REVIEW"
    /\ Len(requests[cli.req].audit_log) = 2
    /\ requests[cli.req].audit_log[2].actor = "Registrar Staff"
    /\ requests[cli.req].decided_at = NoTime
    /\ requests[cli.req].reviewer_name = None

\* C24: the tool loop of a turn is guarded by a maximum iteration count of 10: against
\* a backend that requests tools in every response a turn runs at most 10 rounds of
\* tool calls (and then fails), it never begins an eleventh.
C24_LoopStopsAfterTenRounds == Len(executed) <= 10

\* C25: the time a turn has slept in backoff since it last sent a message, before the
\* backend's response arrives or the rate-limit failure is surfaced, is never more than
\* 15 s + 30 s = 45 s, whatever the backend's failures are: at most max_retries sleeps
\* are made for one dispatch, of 15 s and then 30 s.
C25_BackoffBoundedByFortyFive ==
    /\ Len(sleeps) <= max_retries
    /\ SumSeq(sleeps) <= 15 + 30
    /\ \A k \in 1..Len(sleeps) : sleeps[k] = 15 * k

\* C25 witness: the dispatch that follows a round of tool calls was rate-limited three
\* times; the turn slept 45 s for it and then surfaced the failure
C25_Witness ==
    /\ executed # <<>>
    /\ pc = "idle"
    /\ attemptLog = <<RateLimited, RateLimited, RateLimited>>
    /\ SumSeq(sleeps) = 45
    /\ last = [op |-> "send_and_handle_tools", raised |-> FALSE, reply |-> RateLimitMessage]

\* a step in which a failed dispatch ends the turn: send_and_handle_tools lets the
\* exception go or returns the rate-limit message
DispatchEndsTurn(exc) ==
    /\ pc = "send"
    /\ pc' = "idle"
    /\ attemptLog' = Append(attemptLog, exc)

\* the turn has completed a tool call
CompletedCalls == \E k \in 1..Len(executed) : executed[k] # <<>>

\* C26: when a turn ends on a backend failure (a fatal error, or a rate-limit failure
\* after the retries) after tool calls of the turn have completed, the records are left
\* as those calls wrote them: no record is removed or added and no field that a tool
\* writes is changed. A fatal error leaves the whole store as it is; after the
\* rate-limit message the page saves the displayed messages as the transcript of the
\* user's record, as at the end of every turn, and nothing else.
C26_NoRollbackOnAbort ==
    [][\A exc \in BackendFailures :
          (DispatchEndsTurn(exc) /\ CompletedCalls)
          => /\ Len(requests') = Len(requests)
             /\ WithoutTranscript(requests') = WithoutTranscript(requests)
             /\ exc \in NotRateLimited => requests' = requests
             /\ \A i \in 1..Len(requests) :
                   requests'[i].conversation_history # requests[i].conversation_history
                   => /\ exc = RateLimited
                      /\ IsRecordOf(i, get_sso_username)
                      /\ Len(requests'[i].conversation_history) = Len(messages')]_vars

\* C26 witness: a turn created a record through submit_exception_request and then ended
\* on a failed dispatch; the record is in the store as the tool left it
C26_Witness ==
    /\ pc = "idle"
    /\ last.op = "send_and_handle_tools"
    /\ attemptLog # <<>>
    /\ attemptLog[Len(attemptLog)] \in BackendFailures
    /\ \E k \in 1..Len(executed) :
          /\ executed[k] # <<>>
          /\ executed[k][1].name = "submit_exception_request"
    /\ Len(requests) = 1
    /\ requests[1].status = "SUBMITTED"
    /\ Len(requests[1].audit_log) = 1

\* the result of execute_tool for a name it has no handler for
IsUnknownToolResult(result) ==
    /\ ~result.success
    /\ "error" \in DOMAIN result
    /\ result.error[1] = "Unknown tool"

\* C27: the registry declares exactly five tools, their names are pairwise distinct, and
\* execute_tool has a handler for each of them: a call of a declared tool never comes
\* back with the 'Unknown tool' result (a call of an undeclared name does).
C27_EveryDeclaredToolIsHandled ==
    /\ Len(TOOLS) = 5
    /\ \A i, j \in 1..Len(TOOLS) : TOOLS[i] = TOOLS[j] => i = j
    /\ (Returned /\ last.op \in Range(TOOLS)) => ~IsUnknownToolResult(last.out.result)
    /\ (Returned /\ last.op \notin Range(TOOLS) /\ last.op # "update_status")
       => IsUnknownToolResult(last.out.result)

\* C27 witness: the tool declared last, generate_pdf_record, was called and its handler
\* answered with a PDF path
C27_Witness ==
    /\ last.op = TOOLS[5]
    /\ Returned
    /\ last.out.result.success
    /\ "pdf_path" \in DOMAIN last.out.result

\* C28: a successful submit_exception_request adds exactly one record, under an
\* identifier no record had, and changes no record that existed; the new record is
\* SUBMITTED with submitted_at set, its decision fields and fulfillment fields unset,
\* and its audit log is the one entry of its creation, with the requester as actor.
C28_SubmitAddsOneFreshRecord ==
    [][(/\ last'.op = "submit_exception_request"
        /\ ReturnedNext
        /\ last'.out.result.success)
       => LET new == requests'[Len(requests')]
          IN  /\ Len(requests') = Len(requests) + 1
              /\ \A i \in 1..Len(requests) :
                    /\ requests'[i] = requests[i]
                    /\ requests[i].id # new.id
              /\ new.id = last'.out.result.request_id
              /\ new.usf_username = last'.input["usf_username"]
              /\ new.status = "SUBMITTED"
              /\ new.submitted_at # NoTime
              /\ new.decided_at = NoTime
              /\ new.reviewer_name = None
              /\ new.decision_rationale = None
              /\ \A f \in FulfillmentFields : new[f] = None
              /\ Len(new.audit_log) = 1
              /\ new.audit_log[1].action = <<"Request submitted by student">>
              /\ new.audit_log[1].actor = last'.input["usf_username"]]_vars

\* C28 witness: a second request was submitted into a store that held a decided record
C28_Witness ==
    /\ last.op = "submit_exception_request"
    /\ ReturnedSuccess
    /\ Len(requests) = 2
    /\ last.out.result.request_id = requests[2].id
    /\ requests[1].status \in TERMINAL_STATUSES
    /\ Len(requests[1].audit_log) = 2
    /\ Len(requests[2].audit_log) = 1

\* C29: every update_status call on an existing record, made directly or by a reviewer's
\* operation, appends exactly one audit entry 'Status changed: <old> -> <new>' where
\* <old> is the status the record had before the call and <new> the one it has after,
\* with the reviewer name given as actor, or 'system' when none is given; so the
\* status-change entries of a record chain: each <old> is the <new> of the one before.
C29_StatusChangeEntriesChain ==
    [][\A i \in 1..Len(requests) :
          LET before == requests[i]
              after == requests'[i]
              changes == StatusChanges(after)
              direct == /\ last'.op = "update_status"
                        /\ last'.known
                        /\ last'.request_id = i
              called == \/ after.status # before.status
                        \/ changes # StatusChanges(before)
                        \/ direct
          IN  (\/ after.status # before.status
               \/ Len(after.audit_log) # Len(before.audit_log)
               \/ direct) =>
              /\ called
                 => /\ IsPrefix(before.audit_log, after.audit_log)
                    /\ Len(changes) = Len(StatusChanges(before)) + 1
                    /\ LET entry == after.audit_log[Len(before.audit_log) + 1]
                       IN  /\ entry.action = <<"Status changed", before.status, after.status>>
                           /\ direct
                              => /\ after.audit_log = Append(before.audit_log, entry)
                                 /\ after.status = last'.new_status
                                 /\ entry.actor = IF Truthy(last'.reviewer_name)
                                                  THEN last'.reviewer_name ELSE "system"
                           /\ after.status \in TERMINAL_STATUSES
                              => entry.actor = IF Truthy(after.reviewer_name)
                                               THEN after.reviewer_name ELSE "system"
              /\ \A k \in 2..Len(changes) : changes[k].action[2] = changes[k - 1].action[3]
              /\ changes # <<>> => changes[Len(changes)].action[3] = after.status]_vars

\* C29 witness: a record with two chained status changes, the first made without a
\* reviewer name and the second with one
C29_Witness ==
    \E i \in 1..Len(requests) :
        LET changes == StatusChanges(requests[i])
        IN  /\ Len(changes) = 2
            /\ changes[1].action = <<"Status changed", "SUBMITTED", "UNDER_REVIEW">>
            /\ changes[1].actor = "system"
            /\ changes[2].action[2] = "UNDER_REVIEW"
            /\ changes[2].action[3] = "APPROVED"
            /\ changes[2].actor = "Dr. Jane Smith"
            /\ last.op = "update_status"

\* the record is as review_request left it when it opened it from SUBMITTED: it is
\* UNDER_REVIEW and its log ends with that change, made by 'Registrar Staff'
JustOpened(req) ==
    /\ req.status = "UNDER_REVIEW"
    /\ req.audit_log # <<>>
    /\ req.audit_log[Len(req.audit_log)].action =
          <<"Status changed", "SUBMITTED", "UNDER_REVIEW">>
    /\ req.audit_log[Len(req.audit_log)].actor = "Registrar Staff"

\* C30: when the command-line reviewer cancels (choice C) the review of a request that
\* opening it has just moved from SUBMITTED to UNDER_REVIEW, the request is SUBMITTED
\* again after the cancel.
C30_CancelRevertsToSubmitted ==
    [][(/\ cli.stage = "choice"
        /\ cli'.stage = "menu"
        /\ JustOpened(requests[cli.req]))
       => requests'[cli.req].status = "SUBMITTED"]_vars

\* the records without the path of their PDF
WithoutPdfPath(reqs) == [i \in 1..Len(reqs) |-> [reqs[i] EXCEPT !.pdf_path = None]]

\* the part of a result that both executors are to agree on
ResultCore(out) ==
    IF out.raised THEN <<"raised", out.exc>>
    ELSE <<"returned", out.result.success,
           IF "status" \in DOMAIN out.result THEN out.result.status ELSE None,
           IF "fulfillment_status" \in DOMAIN out.result
           THEN out.result.fulfillment_status ELSE None>>

\* C31 (as stated): the executor of main.py and the executor of the student page, run
\* from the same store on the same tool name and arguments, leave the same store, every
\* field of every record included, and return the same success flag, status and
\* fulfillment_status.
C31_ExecutorsLeaveSameStore ==
    [][("out" \in DOMAIN last' /\ last'.op # "update_status")
       => \A pdf_ok \in BOOLEAN :
             LET m == execute_tool(last'.op, last'.input, requests, clock, pdf_ok)
                 p == page_execute_tool(last'.op, last'.input, requests, clock, pdf_ok)
             IN  (m.requests = requests' /\ m.out = last'.out)
                 => /\ p.requests = m.requests
                    /\ ResultCore(p.out) = ResultCore(m.out)]_vars

\* C31 (amended): the two executors leave the same store but for the spelling of
\* pdf_path, which the page writes through its own directory ('pages/../output') and
\* main.py through 'output'; record count, statuses, all other fields, the audit
\* entries and the clock readings agree, and so do the success flag, status and
\* fulfillment_status of the results (or the exception raised).
C31_ExecutorsAgreeButForPdfPath ==
    [][("out" \in DOMAIN last' /\ last'.op # "update_status")
       => \A pdf_ok \in BOOLEAN :
             LET m == execute_tool(last'.op, last'.input, requests, clock, pdf_ok)
                 p == page_execute_tool(last'.op, last'.input, requests, clock, pdf_ok)
             IN  (m.requests = requests' /\ m.out = last'.out)
                 => /\ WithoutPdfPath(p.requests) = WithoutPdfPath(m.requests)
                    /\ p.clock = m.clock
                    /\ ResultCore(p.out) = ResultCore(m.out)
                    /\ \A i \in 1..Len(m.requests) :
                          m.requests[i].pdf_path # p.requests[i].pdf_path
                          => /\ last'.op = "generate_pdf_record"
                             /\ m.requests[i].pdf_path = PdfPath
                             /\ p.requests[i].pdf_path = PagePdfPath]_vars

\* C31 witness: main.py's executor has generated the PDF of a record and stored its
\* path; the page's executor, run on the same call, returns the path under its own
\* directory
C31_Witness ==
    /\ last.op = "generate_pdf_record"
    /\ ReturnedSuccess
    /\ last.out.result.pdf_path = PdfPath
    /\ \E i \in 1..Len(requests) : requests[i].pdf_path = PdfPath
    /\ LET p == page_execute_tool(last.op, last.input, requests, clock, TRUE)
       IN  p.out.result.success /\ p.out.result.pdf_path = PagePdfPath

\* a step in which send_and_handle_tools returns from a user turn and the chat-input
\* handler runs to its end
UserTurnCompletes ==
    /\ pc # "idle"
    /\ pc' = "idle"
    /\ turns >= 2
    /\ last'.op = "send_and_handle_tools"
    /\ ~last'.raised

\* C32: after every completed user turn in which the signed-in user has a record, the
\* conversation_history of that record (the one the store hands out for the username)
\* is overwritten, not extended: it is the whole running message log, the reply of the
\* turn included, in order, one (role, content) pair per message with the role written
\* in upper case; the save changes no other field of any record and appends no audit
\* entry.
C32_TranscriptOverwrittenWithLog ==
    [][UserTurnCompletes
       => /\ messages' = Append(messages, [role |-> "assistant", content |-> last'.reply])
          /\ Len(requests') = Len(requests)
          /\ \A i \in 1..Len(requests) :
                IF IsRecordOf(i, get_sso_username)
                THEN LET saved == requests'[i].conversation_history
                     IN  /\ Len(saved) = Len(messages')
                         /\ \A k \in 1..Len(saved) :
                               /\ saved[k].content = messages'[k].content
                               /\ saved[k].role = Upper(messages'[k].role)
                               /\ DOMAIN saved[k] = {"role", "content"}
                         /\ [requests'[i] EXCEPT !.conversation_history = <<>>]
                               = [requests[i] EXCEPT !.conversation_history = <<>>]
                         /\ requests'[i].audit_log = requests[i].audit_log
                ELSE requests'[i] = requests[i]]_vars

\* C32 witness: the second user turn has completed and the record holds the five
\* messages of the session, from the greeting to the last reply
C32_Witness ==
    /\ turns = 3
    /\ pc = "idle"
    /\ last.op = "send_and_handle_tools"
    /\ ~last.raised
    /\ Len(messages) = 5
    /\ Len(requests) = 1
    /\ Len(requests[1].conversation_history) = 5
    /\ requests[1].conversation_history[1].role = "ASSISTANT"
    /\ requests[1].conversation_history[4].role = "USER"
    /\ requests[1].conversation_history[5].content = last.reply

\* C33: a failed tool call leaves the record store as it was: submit_fulfillment_info
\* when the user has no record or the record is not APPROVED, generate_pdf_record when
\* the user has no record, and a call of an unknown tool name each return
\* success = false, and no record field changes and no audit entry is appended.
C33_FailedCallChangesNothing ==
    [][("out" \in DOMAIN last' /\ "usf_username" \in DOMAIN last'.input)
       => LET u == last'.input["usf_username"]
              id == get_request_by_username(requests, u)
              rejected ==
                 \/ /\ last'.op = "submit_fulfillment_info"
                    /\ (id = 0 \/ requests[id].status # "APPROVED")
                 \/ /\ last'.op = "generate_pdf_record"
                    /\ id = 0
                 \/ last'.op \notin Range(TOOLS)
              failed == ReturnedNext /\ ~last'.out.result.success
          IN  /\ rejected => failed
              /\ (/\ failed
                  /\ last'.op \in {"submit_fulfillment_info", "generate_pdf_record"}
                                  \cup {"lookup_profile"})
                 => /\ requests' = requests
                    /\ clock' = clock
                    /\ "error" \in DOMAIN last'.out.result]_vars

\* C33 witness: fulfillment data was offered for a record that is DENIED and the call
\* came back with success = false; the record has no fulfillment data
C33_Witness ==
    /\ last.op = "submit_fulfillment_info"
    /\ Returned
    /\ ~last.out.result.success
    /\ \E i \in 1..Len(requests) :
          /\ IsRecordOf(i, last.input["usf_username"])
          /\ requests[i].status = "DENIED"
          /\ requests[i].gown_size = None
          /\ requests[i].fulfillment_status = None

\* C34: in every reachable state the gown_size of a record is unset or one of XS, S, M,
\* L, XL, XXL, XXXL and its cap_size is unset or one of S, M, L, XL: a size outside the
\* declared enumeration is never stored.
C34_SizesWithinEnumeration ==
    \A i \in 1..Len(requests) :
        /\ requests[i].gown_size \in GownSizes \cup {None}
        /\ requests[i].cap_size \in CapSizes \cup {None}

\* the records a step changed
ChangedRecords == {i \in 1..Len(requests) : requests'[i] # requests[i]}

\* C35: get_request_by_username is a function of the store content: it returns the
\* earliest-saved record with the username, whatever the statuses, and not-found when
\* there is none; so check_request_status, submit_fulfillment_info,
\* generate_pdf_record and the transcript save act on the oldest record of a user and
\* never on a later submission.
C35_LookupReturnsEarliestRecord ==
    [][("out" \in DOMAIN last' /\ "usf_username" \in DOMAIN last'.input)
       => LET u == last'.input["usf_username"]
              id == get_request_by_username(requests, u)
              saved == save_conversation(requests, <<[role |-> "user", content |-> "hello"]>>)
              mine == get_request_by_username(requests, get_sso_username)
          IN  /\ id = 0 <=> \A i \in 1..Len(requests) : requests[i].usf_username # u
              /\ id # 0 => /\ requests[id].usf_username = u
                           /\ \A j \in 1..(id - 1) : requests[j].usf_username # u
              /\ (last'.op = "check_request_status" /\ ReturnedNext)
                 => /\ last'.out.result.success <=> id # 0
                    /\ id # 0 => /\ last'.out.result.request_id = requests[id].id
                                 /\ last'.out.result.status = requests[id].status
              /\ (last'.op \in {"submit_fulfillment_info", "generate_pdf_record"}
                  /\ Len(requests') = Len(requests))
                 => /\ ChangedRecords \subseteq {id}
                    /\ (ReturnedNext /\ last'.out.result.success) => ChangedRecords = {id}
              /\ \A i \in 1..Len(requests) : saved[i] # requests[i] => i = mine
              /\ mine # 0 => saved[mine].conversation_history # <<>>]_vars

\* C35 witness: a user has two records, the older one under review and the later one
\* SUBMITTED, and a status check has reported the older one
C35_Witness ==
    /\ Len(requests) = 2
    /\ requests[1].usf_username = requests[2].usf_username
    /\ requests[1].status = "UNDER_REVIEW"
    /\ requests[2].status = "SUBMITTED"
    /\ last.op = "check_request_status"
    /\ ReturnedSuccess
    /\ last.input["usf_username"] = requests[1].usf_username
    /\ last.out.result.request_id = 1
    /\ last.out.result.status = "UNDER_REVIEW"

\* C36: when every dispatch is answered in the end and the backend at last returns a
\* response without a tool invocation, the turn terminates, and the turn that ends on
\* such a response returns its text, the empty string when it has none; when the first
\* response of a turn has no tool invocation the turn ends with no tool executed and
\* the records as they were (but for the transcript the page saves after the turn).
C36_TurnTerminatesWithText ==
    /\ [][ReturnsText
          => LET resp == chat'[Len(chat')].parts
             IN  /\ resp.function_calls = <<>>
                 /\ last' = [op |-> "send_and_handle_tools", raised |-> FALSE,
                             reply |-> IF resp.text \in {None, ""} THEN "" ELSE resp.text]
                 /\ Len(TurnExchanges(chat')) = 2
                    => /\ executed' = <<>>
                       /\ WithoutTranscript(requests') = WithoutTranscript(requests)
                       /\ clock' = clock
                       /\ turns = 1 => requests' = requests]_vars
    /\ (pc # "idle") ~> (pc = "idle")

\* C36 witness: the first response of a user turn had neither function calls nor text;
\* the turn ended with the empty string and with no tool executed
C36_Witness ==
    /\ turns = 2
    /\ pc = "idle"
    /\ executed = <<>>
    /\ Len(chat) = Len(gemini_history)
    /\ chat[Len(chat)].parts.text = None
    /\ last = [op |-> "send_and_handle_tools", raised |-> FALSE, reply |-> ""]

\* the audit entries of req that record a change to APPROVED or DENIED
TerminalChanges(req) ==
    SelectSeq(req.audit_log,
              LAMBDA e : /\ e.action[1] = "Status changed"
                         /\ e.action[3] \in TERMINAL_STATUSES)

\* C37: when two reviewer sessions of the dashboard act concurrently on the same pending
\* record, one approving and one denying, at most one decision is applied: the record
\* has at most one terminal status-change entry, and once no handler is running on it
\* its status, reviewer and rationale are those of a single decision.
C37_OneDashboardDecisionApplied ==
    \A i \in 1..Len(requests) :
        /\ Len(TerminalChanges(requests[i])) <= 1
        /\ (/\ requests[i].status \in TERMINAL_STATUSES
            /\ \A k \in 1..Len(inflight) : inflight[k].request_id # requests[i].id)
           => /\ Len(TerminalChanges(requests[i])) = 1
              /\ \E d \in DashboardSessions :
                    /\ requests[i].status = d[1]
                    /\ requests[i].reviewer_name = d[2]
                    /\ requests[i].decision_rationale = d[3]

\* the audit entries of req that record a fulfillment submission
FulfillmentEntries(req) ==
    SelectSeq(req.audit_log, LAMBDA e : e.action = <<"Fulfillment information submitted">>)

\* C38: in every reachable state the fulfillment_status of a record is unset or PENDING;
\* a submit_fulfillment_info that succeeds, the first one or a repeated one on the
\* APPROVED record, overwrites the stored sizes and address with those of the call, sets
\* the sub-status to PENDING and appends one more audit entry, and changes nothing else.
C38_FulfillmentStatusUnsetOrPending ==
    /\ [](\A i \in 1..Len(requests) : requests[i].fulfillment_status \in {None, "PENDING"})
    /\ [][(/\ last'.op = "submit_fulfillment_info"
           /\ ReturnedNext
           /\ last'.out.result.success)
          => LET in == last'.input
                 id == get_request_by_username(requests, in["usf_username"])
                 entry == AuditEntry(clock, <<"Fulfillment information submitted">>,
                                     in["usf_username"])
             IN  /\ id # 0
                 /\ requests[id].status = "APPROVED"
                 /\ last'.out.result.fulfillment_status = "PENDING"
                 /\ requests' =
                       [requests EXCEPT ![id] =
                           [@ EXCEPT !.gown_size = in["gown_size"],
                                     !.cap_size = in["cap_size"],
                                     !.mailing_street = in["mailing_street"],
                                     !.mailing_city = in["mailing_city"],
                                     !.mailing_state = in["mailing_state"],
                                     !.mailing_zip = in["mailing_zip"],
                                     !.fulfillment_status = "PENDING",
                                     !.audit_log = Append(@, entry)]]]_vars

\* C38 witness: a second submission has just overwritten the sizes of an APPROVED record
\* whose first submission had another gown size
C38_Witness ==
    /\ last.op = "submit_fulfillment_info"
    /\ ReturnedSuccess
    /\ \E i \in 1..Len(requests) :
          /\ requests[i].status = "APPROVED"
          /\ requests[i].usf_username = last.input["usf_username"]
          /\ Len(FulfillmentEntries(requests[i])) = 2
          /\ requests[i].fulfillment_status = "PENDING"
          /\ requests[i].gown_size = "L"
          /\ last.input["gown_size"] = "L"

\* C39: a decision made on the dashboard (approve or deny with a non-blank rationale)
\* appends exactly two audit entries to the record, in this order: the status-change
\* entry, then the 'PDF record generated' entry, both with the reviewer as actor; a click
\* with a blank rationale changes nothing in the record.
C39_DecisionAppendsTwoEntries ==
    [][last'.op = "render_request_card"
       => \A i \in 1..Len(requests) :
             LET before == requests[i]
                 after == requests'[i]
                 n == Len(before.audit_log)
             IN  IF after.status # before.status
                 THEN /\ after.status \in TERMINAL_STATUSES
                      /\ Len(after.audit_log) = n + 2
                      /\ IsPrefix(before.audit_log, after.audit_log)
                      /\ after.audit_log[n + 1].action
                            = <<"Status changed", before.status, after.status>>
                      /\ after.audit_log[n + 1].actor = after.reviewer_name
                      /\ after.audit_log[n + 2].action = <<"PDF record generated">>
                      /\ after.audit_log[n + 2].actor = after.reviewer_name
                 ELSE after = before]_vars

====
